---------------------------- MODULE Spec2Model ----------------------------
(***************************************************************************)
(* A model of the hipDNN execution provider: the capability matcher        *)
(* (src/src/ep.cc), the graph translator / compiler / executor             *)
(* (src/src/kernel.cc) and the provider facade with its name->Kernel table *)
(* (src/src/ep.cc, src/src/node_compute_info.cc).                          *)
(*                                                                         *)
(* The specifications share the variables:                                 *)
(*   SpecMatch   one capability query over a candidate graph               *)
(*   SpecKernel  one Kernel: BuildAndCompile of a subgraph, then Execute   *)
(*   Spec        the facade: Compile requests, CreateState, Compute        *)
(*   SpecFaults  the facade while its collaborators raise exceptions       *)
(*   SpecLife    a provider from CreateEp to ReleaseEp                     *)
(*   SpecAlloc   the device allocator: Alloc and Free                      *)
(*   SpecThreads host threads inside one provider at the same time         *)
(*   SpecCopy    the data-transfer component answering CanCopy queries     *)
(***************************************************************************)
EXTENDS Integers, Sequences, FiniteSets, TLC

VARIABLES
    graph,              \* capability query: the candidate graph (sequence of nodes)
    host,               \* capability query: how the host API behaves during the call
    graph_support_info, \* capability query: groups claimed via AddNodesToFuse
    cap_status,         \* capability query: "none" before the call, then "OK" / "ERROR"
    subgraph,           \* Kernel: the ORT graph handed to BuildAndCompile
    kernel,             \* Kernel: the Kernel object
    vendor,             \* Kernel: how the vendor library behaved during BuildAndCompile
    build_status,       \* Kernel: "none" before BuildAndCompile, then "OK" / "ERROR"
    build_error,        \* Kernel: code and message of the status BuildAndCompile returned
    exec,               \* Kernel::Execute: the running / last call
    kernels_,           \* facade: HipDNNEp::kernels_, name -> Kernel
    next_kernel,        \* facade: identity given to the next Kernel constructed
    compile,            \* facade: the last Compile request and what it returned
    create_state,       \* adapter: the last CreateState call and its compute state
    provider,           \* HipDNNEp object: its life, its accelerator handle
    allocator,          \* HipDeviceAllocator and the device memory behind it
    threads,            \* host threads calling into one provider concurrently
    transfer            \* HipDataTransfer: the last CanCopy query and its answer

vars == <<graph, host, graph_support_info, cap_status, subgraph, kernel, vendor,
          build_status, build_error, exec, kernels_, next_kernel, compile,
          create_state, provider, allocator, threads, transfer>>

\* The components an action of the matcher, of one Kernel or of the facade
\* tables does not touch.
extVars == <<provider, allocator, threads, transfer>>

(***************************************************************************)
(* Bounds                                                                  *)
(***************************************************************************)
MaxNodes == 3       \* longest candidate graph of a capability query

(***************************************************************************)
(* Host graph IR: value infos, attributes, nodes                           *)
(***************************************************************************)
\* An Ort::ConstValueInfo: name, ONNX type, element type, shape (-1 = unknown dim).
VI(name, elem, shape) ==
    [name |-> name, onnx_type |-> "TENSOR", elem |-> elem, shape |-> shape]

\* A value whose type is not a tensor (a sequence, map, optional ...).
NonTensorVI(name) ==
    [name |-> name, onnx_type |-> "OTHER", elem |-> "UNDEFINED", shape |-> <<>>]

\* std::optional
None == [has |-> FALSE, v |-> <<>>]
Some(x) == [has |-> TRUE, v |-> x]

\* GetTensorShape: nullopt only when the value is not a tensor; otherwise
\* whatever GetShape() reports, unknown dimensions (-1) included.
GetTensorShape(value_info) ==
    IF value_info.onnx_type # "TENSOR" THEN None ELSE Some(value_info.shape)

\* GetTensorElementType: UNDEFINED when the value is not a tensor.
GetTensorElementType(value_info) ==
    IF value_info.onnx_type # "TENSOR" THEN "UNDEFINED" ELSE value_info.elem

\* Attribute values are tagged with their ONNX attribute kind.
AbsentAttr == [kind |-> "absent", s |-> "", i |-> 0, v |-> <<>>]
StrAttr(x)  == [kind |-> "string", s |-> x, i |-> 0, v |-> <<>>]
IntAttr(x)  == [kind |-> "int", s |-> "", i |-> x, v |-> <<>>]
IntsAttr(x) == [kind |-> "ints", s |-> "", i |-> 0, v |-> x]

NoAttrs == [auto_pad |-> AbsentAttr, group |-> AbsentAttr, dilations |-> AbsentAttr,
            pads |-> AbsentAttr, strides |-> AbsentAttr]

\* The default is returned when the attribute is absent or GetValue fails
\* (the attribute has another kind).
GetStringAttrOrDefault(node, name, default_val) ==
    IF node.attrs[name].kind = "string" THEN node.attrs[name].s ELSE default_val

GetIntAttrOrDefault(node, name, default_val) ==
    IF node.attrs[name].kind = "int" THEN node.attrs[name].i ELSE default_val

GetIntsAttrOrDefault(node, name, default_val) ==
    IF node.attrs[name].kind = "ints" THEN node.attrs[name].v ELSE default_val

(***************************************************************************)
(* Capability matcher (ep.cc)                                              *)
(* A verdict is "true", "false" or "throw" (an exception leaves the call). *)
(* node.throws names the host accessor that raises for this node.          *)
(***************************************************************************)
SupportedType(x_type, w_type, y_type) ==
    /\ x_type \in {"FLOAT", "FLOAT16"}
    /\ x_type = w_type
    /\ x_type = y_type

\* The body of the try block of IsSupportedConv, in statement order.
ConvTryBlock(node) ==
    IF node.throws = "GetInputs" THEN "throw"
    ELSE IF node.throws = "GetOutputs" THEN "throw"
    ELSE IF Len(node.inputs) < 2 \/ Len(node.outputs) # 1 THEN "false"
    ELSE IF node.throws = "TypeInfo" THEN "throw"
    ELSE IF ~SupportedType(GetTensorElementType(node.inputs[1]),
                           GetTensorElementType(node.inputs[2]),
                           GetTensorElementType(node.outputs[1])) THEN "false"
    ELSE IF node.throws = "GetShape" THEN "throw"
    ELSE IF ~GetTensorShape(node.inputs[1]).has
            \/ ~GetTensorShape(node.inputs[2]).has THEN "false"
    ELSE IF Len(GetTensorShape(node.inputs[1]).v) # 4
            \/ Len(GetTensorShape(node.inputs[2]).v) # 4 THEN "false"
    ELSE IF node.throws = "GetAttribute" THEN "throw"
    ELSE IF GetStringAttrOrDefault(node, "auto_pad", "NOTSET") # "NOTSET" THEN "false"
    ELSE IF GetIntAttrOrDefault(node, "group", 1) # 1 THEN "false"
    ELSE LET dilations == GetIntsAttrOrDefault(node, "dilations", <<1, 1>>) IN
         IF Len(dilations) # 2 \/ dilations[1] # 1 \/ dilations[2] # 1 THEN "false"
         ELSE "true"

\* The try block without its handler.
IsSupportedConvNoCatch(node) == ConvTryBlock(node)

\* try { ... } catch (...) { return false; }
IsSupportedConv(node) ==
    IF ConvTryBlock(node) = "throw" THEN "false" ELSE ConvTryBlock(node)

\* GetOperatorType is read outside any handler of the matcher.
IsSupportedOp(node) ==
    IF node.throws = "GetOperatorType" THEN "throw"
    ELSE IF node.op_type = "Conv" THEN IsSupportedConv(node)
    ELSE "false"


\* The node loop of GetCapabilityImpl from node i on: the indices of the nodes
\* IsSupportedOp accepts, in node order, or threw when an exception escapes.
RECURSIVE CollectSupported(_, _)
CollectSupportedAll(nodes, i) ==
    [threw |-> FALSE, supported |-> [k \in 1..(Len(nodes) - i + 1) |-> k + i - 1]]

CollectSupported(nodes, i) ==
    IF i > Len(nodes) THEN [threw |-> FALSE, supported |-> <<>>]
    ELSE IF IsSupportedOp(nodes[i]) = "throw" THEN [threw |-> TRUE, supported |-> <<>>]
    ELSE LET rest == CollectSupported(nodes, i + 1) IN
         [threw |-> rest.threw,
          supported |-> IF IsSupportedOp(nodes[i]) = "true"
                        THEN <<i>> \o rest.supported ELSE rest.supported]

\* The claim loop: one EpGraphSupportInfo_AddNodesToFuse call per supported
\* node, each with a single node; RETURN_IF_ERROR leaves at the first call the
\* host fails (fail_at, 0 = none fails).
ClaimNodes(supported, fail_at) ==
    LET n == IF fail_at \in 1..Len(supported) THEN fail_at - 1 ELSE Len(supported) IN
    [status |-> IF n < Len(supported) THEN "ERROR" ELSE "OK",
     claimed |-> [k \in 1..n |-> <<supported[k]>>]]

\* A matcher with memory: a node equal to one it already accepted is skipped.
GetCapabilityImplRemembers(nodes, h) ==
    IF h.get_nodes_throws THEN [status |-> "ERROR", claimed |-> <<>>]
    ELSE IF nodes = <<>> THEN [status |-> "OK", claimed |-> <<>>]
    ELSE LET c == CollectSupported(nodes, 1)
             fresh(i) == \A j \in 1..(i - 1) : nodes[j] # nodes[i]
         IN  IF c.threw THEN [status |-> "ERROR", claimed |-> <<>>]
             ELSE IF c.supported = <<>> THEN [status |-> "OK", claimed |-> <<>>]
             ELSE ClaimNodes(SelectSeq(c.supported, fresh), h.fuse_fail_at)

GetCapabilityImpl(nodes, h) ==
    IF h.get_nodes_throws THEN [status |-> "ERROR", claimed |-> <<>>]
    ELSE IF nodes = <<>> THEN [status |-> "OK", claimed |-> <<>>]
    ELSE LET c == CollectSupported(nodes, 1) IN
         IF c.threw THEN [status |-> "ERROR", claimed |-> <<>>]
         ELSE IF c.supported = <<>> THEN [status |-> "OK", claimed |-> <<>>]
         ELSE ClaimNodes(c.supported, h.fuse_fail_at)

(***************************************************************************)
(* Candidate nodes of a capability query: a well-formed Conv and the nodes *)
(* one or two changes away from it.                                        *)
(***************************************************************************)
XInfo == VI("X", "FLOAT", <<1, 1, 8, 8>>)
WInfo == VI("W", "FLOAT", <<1, 1, 3, 3>>)
BInfo == VI("B", "FLOAT", <<1>>)
YInfo == VI("Y", "FLOAT", <<1, 1, 6, 6>>)

BaseConv ==
    [name |-> "conv", op_type |-> "Conv", inputs |-> <<XInfo, WInfo>>,
     outputs |-> <<YInfo>>, attrs |-> NoAttrs, throws |-> "none"]

Take(s, n) == SubSeq(s, 1, IF n < Len(s) THEN n ELSE Len(s))

SetElem(vis, i, elem) ==
    IF i \in DOMAIN vis THEN [vis EXCEPT ![i].elem = elem] ELSE vis
SetShape(vis, i, shape) ==
    IF i \in DOMAIN vis THEN [vis EXCEPT ![i].shape = shape] ELSE vis

Vary(n, k) ==
    CASE k = 1  -> [n EXCEPT !.op_type = "Relu"]
      [] k = 2  -> [n EXCEPT !.inputs = Take(n.inputs, 1)]
      [] k = 3  -> [n EXCEPT !.inputs = Take(n.inputs, 2) \o <<BInfo>>]
      [] k = 4  -> [n EXCEPT !.inputs = Take(n.inputs, 2) \o
                                        <<VI("B", "FLOAT16", <<1>>)>>]
      [] k = 5  -> [n EXCEPT !.inputs = Take(n.inputs, 2)
                                        \o <<VI("B", "INT32", <<1>>)>>]
      [] k = 6  -> [n EXCEPT !.inputs = SetElem(n.inputs, 1, "FLOAT16")]
      [] k = 7  -> [n EXCEPT !.inputs = SetElem(n.inputs, 2, "FLOAT16")]
      [] k = 8  -> [n EXCEPT !.outputs = SetElem(n.outputs, 1, "FLOAT16")]
      [] k = 9  -> [n EXCEPT !.inputs = SetElem(SetElem(n.inputs, 1, "FLOAT16"),
                                                2, "FLOAT16"),
                             !.outputs = SetElem(n.outputs, 1, "FLOAT16")]
      [] k = 10 -> [n EXCEPT !.inputs = SetElem(SetElem(n.inputs, 1, "INT32"),
                                                2, "INT32"),
                             !.outputs = SetElem(n.outputs, 1, "INT32")]
      [] k = 11 -> [n EXCEPT !.inputs = SetShape(n.inputs, 1, <<1, 8, 8>>)]
      [] k = 12 -> [n EXCEPT !.inputs = SetShape(n.inputs, 1, <<-1, 1, 8, 8>>)]
      [] k = 13 -> [n EXCEPT !.inputs = SetShape(n.inputs, 2, <<1, 3, 3>>)]
      [] k = 14 -> [n EXCEPT !.inputs = SetShape(n.inputs, 2, <<1, 1, -1, -1>>)]
      [] k = 15 -> [n EXCEPT !.inputs = <<NonTensorVI("X")>> \o Tail(n.inputs)]
      [] k = 16 -> [n EXCEPT !.outputs = <<>>]
      [] k = 17 -> [n EXCEPT !.outputs = n.outputs \o <<VI("Y2", "FLOAT", <<1, 1, 6, 6>>)>>]
      [] k = 18 -> [n EXCEPT !.attrs.auto_pad = StrAttr("NOTSET")]
      [] k = 19 -> [n EXCEPT !.attrs.auto_pad = StrAttr("SAME_UPPER")]
      [] k = 20 -> [n EXCEPT !.attrs.auto_pad = IntAttr(1)]
      [] k = 21 -> [n EXCEPT !.attrs.group = IntAttr(1)]
      [] k = 22 -> [n EXCEPT !.attrs.group = IntAttr(2)]
      [] k = 23 -> [n EXCEPT !.attrs.dilations = IntsAttr(<<1, 1>>)]
      [] k = 24 -> [n EXCEPT !.attrs.dilations = IntsAttr(<<2, 1>>)]
      [] k = 25 -> [n EXCEPT !.attrs.dilations = IntsAttr(<<1, 2>>)]
      [] k = 26 -> [n EXCEPT !.attrs.dilations = IntsAttr(<<1>>)]
      [] k = 27 -> [n EXCEPT !.attrs.dilations = IntsAttr(<<1, 1, 1>>)]
      [] k = 28 -> [n EXCEPT !.throws = "GetOperatorType"]
      [] k = 29 -> [n EXCEPT !.throws = "GetInputs"]
      [] k = 30 -> [n EXCEPT !.throws = "GetOutputs"]
      [] k = 31 -> [n EXCEPT !.throws = "TypeInfo"]
      [] k = 32 -> [n EXCEPT !.throws = "GetShape"]
      [] k = 33 -> [n EXCEPT !.throws = "GetAttribute"]
      [] k = 34 -> [n EXCEPT !.attrs.pads = IntsAttr(<<1, 2, 3>>)]
      [] k = 35 -> [n EXCEPT !.attrs.strides = IntsAttr(<<2>>)]
      [] OTHER  -> n

Variations == 0..35
Nodes1 == {Vary(BaseConv, k) : k \in Variations}
Nodes2 == {Vary(Vary(BaseConv, j), k) : j, k \in Variations}
KeyNodes == {Vary(BaseConv, k) : k \in {0, 1, 3, 12, 28, 31}}

SeqsUpTo(S, n) == UNION {[1..m -> S] : m \in 0..n}

CandidateGraphs ==
    SeqsUpTo(KeyNodes, MaxNodes) \cup [1..1 -> Nodes2] \cup [1..2 -> Nodes1]

HostBehaviours ==
    [get_nodes_throws : BOOLEAN, fuse_fail_at : 0..MaxNodes]

(***************************************************************************)
(* Values of the variables a specification does not use                    *)
(***************************************************************************)
NoGraph == [inputs |-> <<>>, nodes |-> <<>>, outputs |-> <<>>, throws |-> "none"]
NoError == [code |-> "", message |-> ""]
NoHost == [get_nodes_throws |-> FALSE, fuse_fail_at |-> 0]
EmptyMap == [x \in {} |-> 0]
NoCompile ==
    [handed |-> 0, request |-> <<>>, status |-> "none", node_compute_infos |-> <<>>,
     built |-> <<>>]
NoCreateState == [node_name |-> "", status |-> "none", compute_state |-> 0]
NoProvider ==
    [state |-> "none", hipdnn_handle_ |-> 0, ep |-> "null", status |-> "none",
     code |-> "", attempts |-> 0, events |-> <<>>]
NoAllocator ==
    [allocation_sizes_ |-> EmptyMap,
     stats_ |-> [num_allocs |-> 0, bytes_in_use |-> 0, total_allocated_bytes |-> 0,
                 max_bytes_in_use |-> 0, max_alloc_size |-> 0],
     device |-> {}, calls |-> 0, returned |-> 0, last |-> 0]
NoThreads == <<>>
NoTransfer == [asked |-> FALSE, src |-> 0, dst |-> 0, result |-> FALSE]

(***************************************************************************)
(* Kernel (kernel.h, kernel.cc)                                            *)
(***************************************************************************)
MapPut(f, key, val) ==
    [x \in DOMAIN f \cup {key} |-> IF x = key THEN val ELSE f[x]]

\* hipdnn_frontend::graph::Graph: the operators appended so far and the build
\* stages invoked on it.  graph_ is a null pointer until BuildAndCompile runs.
NullGraph == [null |-> TRUE, ops |-> <<>>, stages |-> <<>>]
EmptyVendorGraph == [null |-> FALSE, ops |-> <<>>, stages |-> <<>>]

\* The state a Kernel has after its constructor; kid stands for the address.
NewKernel(kid) ==
    [kid |-> kid,
     graph_ |-> NullGraph,
     workspace_ |-> 0,
     input_uids_ |-> <<>>,
     output_uids_ |-> <<>>,
     output_shapes_ |-> <<>>,
     symbol_table_ |-> EmptyMap,
     next_uid_ |-> 1]

RECURSIVE ComputeStridesFrom(_, _)
ComputeStridesFrom(shape, i) ==
    IF i > Len(shape) THEN <<>>
    ELSE LET rest == ComputeStridesFrom(shape, i + 1) IN
         <<IF rest = <<>> THEN 1 ELSE rest[1] * shape[i + 1]>> \o rest

ComputeStrides(shape) == ComputeStridesFrom(shape, 1)

ToHipDNNDataType(onnx_dtype) ==
    CASE onnx_dtype = "FLOAT"   -> Some("FLOAT")
      [] onnx_dtype = "FLOAT16" -> Some("HALF")
      [] OTHER                  -> None

GetComputeDataType(x_dtype, w_dtype) ==
    IF x_dtype \in {"FLOAT", "HALF"} /\ w_dtype \in {"FLOAT", "HALF"}
    THEN Some("FLOAT") ELSE None

\* CreateTensorAttr: [ok, msg, attr]; is_virtual keeps the TensorAttributes
\* default.
CreateTensorAttr(value_info, uid) ==
    IF ~GetTensorShape(value_info).has
    THEN [ok |-> FALSE, msg |-> "Value must have static shape", attr |-> 0]
    ELSE IF ~ToHipDNNDataType(GetTensorElementType(value_info)).has
         THEN [ok |-> FALSE, msg |-> "Unsupported data type for value", attr |-> 0]
    ELSE [ok |-> TRUE, msg |-> "",
          attr |-> [uid |-> uid,
                    name |-> value_info.name,
                    data_type |-> ToHipDNNDataType(GetTensorElementType(value_info)).v,
                    dim |-> GetTensorShape(value_info).v,
                    stride |-> ComputeStrides(GetTensorShape(value_info).v),
                    is_virtual |-> FALSE]]

\* How a step of BuildAndCompile ends: it went through, it returned an error
\* status with a message, or an exception named what left it.  k is the
\* Kernel as the step leaves it.
Done(k) == [ok |-> TRUE, threw |-> FALSE, msg |-> "", k |-> k]
Fail(k, msg) == [ok |-> FALSE, threw |-> FALSE, msg |-> msg, k |-> k]
Throw(k, what) == [ok |-> FALSE, threw |-> TRUE, msg |-> what, k |-> k]

\* One iteration of the graph-input loop of BuildAndCompile.
\* next_uid_++ is evaluated before CreateTensorAttr is entered.
TranslateInputPrepend(k, input) ==
    LET r == CreateTensorAttr(input, k.next_uid_) IN
    IF ~r.ok THEN Fail([k EXCEPT !.next_uid_ = @ + 1], r.msg)
    ELSE Done([k EXCEPT !.next_uid_ = @ + 1,
                        !.symbol_table_ = MapPut(@, input.name, r.attr),
                        !.input_uids_ = <<r.attr.uid>> \o @])

TranslateInput(k, input) ==
    LET r == CreateTensorAttr(input, k.next_uid_) IN
    IF ~r.ok THEN Fail([k EXCEPT !.next_uid_ = @ + 1], r.msg)
    ELSE Done([k EXCEPT !.next_uid_ = @ + 1,
                        !.symbol_table_ = MapPut(@, input.name, r.attr),
                        !.input_uids_ = Append(@, r.attr.uid)])

\* Padding normalization of AddConvNode: [ok, pads].
NormalizePadsNoCheck(pads) ==
    IF Len(pads) = 2 THEN [ok |-> TRUE, pads |-> <<pads[1], pads[2], pads[1], pads[2]>>]
    ELSE [ok |-> TRUE, pads |-> pads]

NormalizePads(pads) ==
    IF Len(pads) = 2 THEN [ok |-> TRUE, pads |-> <<pads[1], pads[2], pads[1], pads[2]>>]
    ELSE IF Len(pads) # 4 THEN [ok |-> FALSE, pads |-> pads]
    ELSE [ok |-> TRUE, pads |-> pads]

\* v[i] of a std::vector (i counted from 1 here); a read past the end is
\* undefined behaviour and yields oob, a value the environment picks.
VecAt(v, i, oob) == IF i \in DOMAIN v THEN v[i] ELSE oob

\* AddConvNode: [ok, msg, graph, out]; on success one conv_fprop operator is
\* appended and out is the output attribute it returns (virtual, no uid yet).
AddConvNode(vgraph, node, input_attrs, oob) ==
    IF Len(input_attrs) < 2
    THEN [ok |-> FALSE, msg |-> "Conv requires at least 2 input tensor attributes",
          graph |-> vgraph, out |-> <<>>]
    ELSE
    LET pads == NormalizePads(GetIntsAttrOrDefault(node, "pads", <<0, 0, 0, 0>>))
        strides == GetIntsAttrOrDefault(node, "strides", <<1, 1>>)
        dilations == GetIntsAttrOrDefault(node, "dilations", <<1, 1>>)
        compute_dtype == GetComputeDataType(input_attrs[1].data_type,
                                            input_attrs[2].data_type)
    IN  IF ~pads.ok
        THEN [ok |-> FALSE, msg |-> "Conv pads must have 2 or 4 elements",
              graph |-> vgraph, out |-> <<>>]
        ELSE IF ~compute_dtype.has
        THEN [ok |-> FALSE, msg |-> "Unsupported data type combination for Conv compute",
              graph |-> vgraph, out |-> <<>>]
        ELSE [ok |-> TRUE, msg |-> "",
              graph |-> [vgraph EXCEPT !.ops = Append(@,
                  [op |-> "conv_fprop",
                   x |-> input_attrs[1].uid,
                   w |-> input_attrs[2].uid,
                   y |-> 0,
                   padding |-> <<VecAt(pads.pads, 1, oob), VecAt(pads.pads, 2, oob)>>,
                   stride |-> <<VecAt(strides, 1, oob), VecAt(strides, 2, oob)>>,
                   dilation |-> <<VecAt(dilations, 1, oob), VecAt(dilations, 2, oob)>>,
                   mode |-> "CROSS_CORRELATION",
                   compute_data_type |-> compute_dtype.v])],
              out |-> <<[uid |-> 0, name |-> "", data_type |-> "NOT_SET", dim |-> <<>>,
                         stride |-> <<>>, is_virtual |-> TRUE]>>]

\* AddNode: dispatch on the operator type.
AddNode(vgraph, node, input_attrs, oob) ==
    IF node.op_type = "Conv" THEN AddConvNode(vgraph, node, input_attrs, oob)
    ELSE [ok |-> FALSE, msg |-> "Unsupported op type", graph |-> vgraph, out |-> <<>>]

\* One iteration of the output-tagging loop: data type and shape come from
\* the node's declared output; the fresh uid is taken only when both exist.
TagOutputReuseUid(k, attr, node_output) ==
    IF ~ToHipDNNDataType(GetTensorElementType(node_output)).has
    THEN Fail(k, "Unsupported data type for output")
    ELSE IF ~GetTensorShape(node_output).has
    THEN Fail(k, "Output must have static shape")
    ELSE Done([k EXCEPT
                 !.symbol_table_ = MapPut(@, node_output.name,
                     [attr EXCEPT
                        !.uid = k.next_uid_,
                        !.name = node_output.name,
                        !.data_type =
                            ToHipDNNDataType(GetTensorElementType(node_output)).v,
                        !.dim = GetTensorShape(node_output).v,
                        !.stride = ComputeStrides(GetTensorShape(node_output).v)]),
                 !.graph_.ops[Len(k.graph_.ops)].y = k.next_uid_])

TagOutput(k, attr, node_output) ==
    IF ~ToHipDNNDataType(GetTensorElementType(node_output)).has
    THEN Fail(k, "Unsupported data type for output")
    ELSE IF ~GetTensorShape(node_output).has
    THEN Fail(k, "Output must have static shape")
    ELSE Done([k EXCEPT
                 !.next_uid_ = @ + 1,
                 !.symbol_table_ = MapPut(@, node_output.name,
                     [attr EXCEPT
                        !.uid = k.next_uid_,
                        !.name = node_output.name,
                        !.data_type =
                            ToHipDNNDataType(GetTensorElementType(node_output)).v,
                        !.dim = GetTensorShape(node_output).v,
                        !.stride = ComputeStrides(GetTensorShape(node_output).v)]),
                 !.graph_.ops[Len(k.graph_.ops)].y = k.next_uid_])

RECURSIVE TagOutputs(_, _, _, _)
TagOutputs(k, output_attrs, node_outputs, i) ==
    IF i > Len(output_attrs) THEN Done(k)
    ELSE LET r == TagOutput(k, output_attrs[i], node_outputs[i]) IN
         IF ~r.ok THEN r ELSE TagOutputs(r.k, output_attrs, node_outputs, i + 1)

\* One iteration of the node loop of BuildAndCompile.  node.throws names the
\* accessor of this node that raises, at the place the loop body calls it.
TranslateNode(k, node, oob) ==
    IF node.throws = "GetInputs" THEN Throw(k, "GetInputs")
    ELSE IF \E i \in DOMAIN node.inputs : node.inputs[i].name \notin DOMAIN k.symbol_table_
    THEN Fail(k, "Input not found in symbol table")
    ELSE IF node.throws \in {"GetOperatorType", "GetAttribute"}
    THEN Throw(k, node.throws)
    ELSE
    LET input_attrs == [i \in DOMAIN node.inputs |-> k.symbol_table_[node.inputs[i].name]]
        a == AddNode(k.graph_, node, input_attrs, oob)
    IN  IF ~a.ok THEN Fail(k, a.msg)
        ELSE IF node.throws = "GetOutputs"
        THEN Throw([k EXCEPT !.graph_ = a.graph], "GetOutputs")
        ELSE IF Len(a.out) # Len(node.outputs)
        THEN Fail([k EXCEPT !.graph_ = a.graph], "Output count mismatch for node")
        ELSE IF node.throws \in {"TypeInfo", "GetShape"}
        THEN Throw([k EXCEPT !.graph_ = a.graph], node.throws)
        ELSE TagOutputs([k EXCEPT !.graph_ = a.graph], a.out, node.outputs, 1)

\* The graph-output loop without set_is_virtual(false).
MarkOutputKeepsVirtual(k, output) ==
    IF output.name \notin DOMAIN k.symbol_table_
    THEN Fail(k, "Graph output not found in symbol table")
    ELSE LET k1 == [k EXCEPT
                      !.output_uids_ = Append(@, k.symbol_table_[output.name].uid)]
         IN  IF ~GetTensorShape(output).has
             THEN Fail(k1, "Graph output must have static shape")
             ELSE Done([k1 EXCEPT !.output_shapes_ =
                                      Append(@, GetTensorShape(output).v)])

\* One iteration of the graph-output loop of BuildAndCompile.
MarkOutputSkipMissing(k, output) ==
    IF output.name \notin DOMAIN k.symbol_table_ THEN Done(k)
    ELSE LET k1 == [k EXCEPT
                      !.symbol_table_[output.name].is_virtual = FALSE,
                      !.output_uids_ = Append(@, k.symbol_table_[output.name].uid)]
         IN  IF ~GetTensorShape(output).has
             THEN Fail(k1, "Graph output must have static shape")
             ELSE Done([k1 EXCEPT !.output_shapes_ =
                                      Append(@, GetTensorShape(output).v)])

MarkOutput(k, output) ==
    IF output.name \notin DOMAIN k.symbol_table_
    THEN Fail(k, "Graph output not found in symbol table")
    ELSE LET k1 == [k EXCEPT
                      !.symbol_table_[output.name].is_virtual = FALSE,
                      !.output_uids_ = Append(@, k.symbol_table_[output.name].uid)]
         IN  IF ~GetTensorShape(output).has
             THEN Fail(k1, "Graph output must have static shape")
             ELSE Done([k1 EXCEPT !.output_shapes_ =
                                      Append(@, GetTensorShape(output).v)])

RECURSIVE TranslateInputs(_, _, _)
TranslateInputs(k, graph_inputs, i) ==
    IF i > Len(graph_inputs) THEN Done(k)
    ELSE LET r == TranslateInput(k, graph_inputs[i]) IN
         IF ~r.ok THEN r ELSE TranslateInputs(r.k, graph_inputs, i + 1)

RECURSIVE TranslateNodes(_, _, _, _)
TranslateNodes(k, nodes, i, oob) ==
    IF i > Len(nodes) THEN Done(k)
    ELSE LET r == TranslateNode(k, nodes[i], oob) IN
         IF ~r.ok THEN r ELSE TranslateNodes(r.k, nodes, i + 1, oob)

RECURSIVE MarkOutputs(_, _, _)
MarkOutputs(k, graph_outputs, i) ==
    IF i > Len(graph_outputs) THEN Done(k)
    ELSE LET r == MarkOutput(k, graph_outputs[i]) IN
         IF ~r.ok THEN r ELSE MarkOutputs(r.k, graph_outputs, i + 1)

\* The vendor build stages in the order CompileGraph invokes them, and the
\* message CompileGraph returns when the stage reports an error.
Stages == <<"validate", "build_operation_graph", "create_execution_plans",
            "check_support", "build_plans", "get_workspace_size">>

StageMessages ==
    <<"hipDNN graph validation failed", "hipDNN build_operation_graph failed",
      "hipDNN create_execution_plans failed", "hipDNN check_support failed",
      "hipDNN build_plans failed", "hipDNN get_workspace_size failed">>

\* The stage calls of CompileGraph from stage i on.  graph_.stages records the
\* calls made; lib.bad holds the stages that report an error when called.
RECURSIVE RunStagesAll(_, _, _)
RunStagesAll(k, lib, i) ==
    IF i > Len(Stages) THEN [ok |-> TRUE, failed |-> 0, k |-> k]
    ELSE LET r == RunStagesAll([k EXCEPT !.graph_.stages = Append(@, Stages[i])],
                               lib, i + 1)
         IN  IF i \in lib.bad THEN [ok |-> FALSE, failed |-> i, k |-> r.k] ELSE r

RECURSIVE RunStages(_, _, _)
RunStages(k, lib, i) ==
    IF i > Len(Stages) THEN [ok |-> TRUE, failed |-> 0, k |-> k]
    ELSE IF i \in lib.bad
    THEN [ok |-> FALSE, failed |-> i,
          k |-> [k EXCEPT !.graph_.stages = Append(@, Stages[i])]]
    ELSE RunStages([k EXCEPT !.graph_.stages = Append(@, Stages[i])], lib, i + 1)

\* CompileGraph that leaves workspace_ as the constructor made it.
CompileGraphNoResize(k, lib) ==
    LET r == RunStages(k, lib, 1) IN
    IF ~r.ok THEN Fail(r.k, StageMessages[r.failed]) ELSE Done(r.k)

\* CompileGraph; lib.workspace_size is what get_workspace_size reports.
CompileGraph(k, lib) ==
    LET r == RunStages(k, lib, 1) IN
    IF ~r.ok THEN Fail(r.k, StageMessages[r.failed])
    ELSE Done([r.k EXCEPT !.workspace_ = IF lib.workspace_size > 0
                                         THEN lib.workspace_size ELSE @])

\* The try block of BuildAndCompile.  g.throws names the accessor of the graph
\* that raises.
BuildTryBlock(k, g, lib) ==
    LET k0 == [k EXCEPT !.graph_ = EmptyVendorGraph]
        r1 == TranslateInputs(k0, g.inputs, 1)
        r2 == TranslateNodes(r1.k, g.nodes, 1, lib.oob)
        r3 == MarkOutputs(r2.k, g.outputs, 1)
        r4 == CompileGraph(r3.k, lib)
    IN  IF g.throws \in {"GetInputs", "GetOutputs"} THEN Throw(k0, g.throws)
        ELSE IF ~r1.ok THEN r1
        ELSE IF g.throws = "GetNodes" THEN Throw(r1.k, "GetNodes")
        ELSE IF ~r2.ok THEN r2
        ELSE IF ~r3.ok THEN r3
        ELSE r4

\* The try block without its handler: the exception leaves the call.
BuildAndCompileNoCatch(k, g, lib) ==
    LET r == BuildTryBlock(k, g, lib) IN
    [status |-> IF r.threw THEN "THROW" ELSE IF r.ok THEN "OK" ELSE "ERROR",
     code |-> IF r.ok \/ r.threw THEN "" ELSE "ORT_EP_FAIL",
     message |-> r.msg,
     k |-> r.k]

\* Kernel::BuildAndCompile: [status, code, message, k], k the Kernel as the
\* call leaves it.  catch (const std::exception&) turns an exception into an
\* ORT_EP_FAIL status.
BuildAndCompile(k, g, lib) ==
    LET r == BuildTryBlock(k, g, lib) IN
    [status |-> IF r.ok THEN "OK" ELSE "ERROR",
     code |-> IF r.ok THEN "" ELSE "ORT_EP_FAIL",
     message |-> IF r.threw THEN "Exception building hipDNN graph" ELSE r.msg,
     k |-> r.k]

(***************************************************************************)
(* Kernel::Execute, one step per statement group.  exec holds the call:    *)
(* its position, the Kernel it runs on, the OrtKernelContext it was given, *)
(* the loop index, the local variant pack, the outputs the runtime was     *)
(* asked to materialize and the vendor execute call it made.               *)
(***************************************************************************)
MaxIO == 3          \* most inputs / outputs a kernel context supplies

NullPtr == <<"null", 0>>
InputBuffer(i) == <<"input", i>>
OutputBuffer(i) == <<"output", i>>
\* One workspace buffer for all Kernels.
WorkspaceBufferShared(k) == <<"workspace", 0>>
\* The buffer of the Kernel's own workspace_ vector.
WorkspaceBuffer(k) == <<"workspace", k.kid>>

NoCall == [made |-> FALSE, variant_pack |-> EmptyMap, workspace_ptr |-> NullPtr]
NoContext == [nin |-> 0, nout |-> 0, input_throws |-> 0, output_throws |-> 0,
              vendor_fails |-> FALSE]
IdleExec ==
    [pc |-> "idle", kernel |-> NewKernel(0), ctx |-> NoContext, i |-> 0,
     variant_pack |-> EmptyMap, materialized |-> <<>>, call |-> NoCall,
     status |-> "none"]

\* A kernel context: how many inputs and outputs the runtime supplies, which
\* GetInput / GetOutput call raises (0 = none), whether the vendor call fails.
\* A call ends at its first fault, so a context names at most one.
Contexts ==
    {c \in [nin : 0..MaxIO, nout : 0..MaxIO, input_throws : 0..MaxIO,
            output_throws : 0..MaxIO, vendor_fails : BOOLEAN] :
        /\ c.input_throws <= c.nin /\ c.output_throws <= c.nout
        /\ c.input_throws > 0 => (c.output_throws = 0 /\ ~c.vendor_fails)
        /\ c.output_throws > 0 => ~c.vendor_fails}

\* The two count checks at the head of Execute.
CheckCountsInputsOnly(k, ctx) ==
    ctx.nin = Len(k.input_uids_)

CheckCounts(k, ctx) ==
    /\ ctx.nin = Len(k.input_uids_)
    /\ ctx.nout = Len(k.output_uids_)

\* variant_pack[input_uids_[i]] = input.GetTensorRawData()
BindInput(variant_pack, k, i) ==
    MapPut(variant_pack, k.input_uids_[i], InputBuffer(i))

\* variant_pack[output_uids_[i]] = output.GetTensorMutableRawData()
BindOutput(variant_pack, k, i) ==
    MapPut(variant_pack, k.output_uids_[i], OutputBuffer(i))

WorkspacePtr(k) == IF k.workspace_ = 0 THEN NullPtr ELSE WorkspaceBuffer(k)

\* Where control is once the loop at pc has index i.
Position(k, pc, i) ==
    IF pc = "bind_in" /\ i <= Len(k.input_uids_) THEN [pc |-> "bind_in", i |-> i]
    ELSE IF pc = "bind_in" /\ Len(k.output_uids_) >= 1 THEN [pc |-> "bind_out", i |-> 1]
    ELSE IF pc = "bind_out" /\ i <= Len(k.output_uids_) THEN [pc |-> "bind_out", i |-> i]
    ELSE [pc |-> "run", i |-> 0]

ExecFrame == <<graph, host, graph_support_info, cap_status, subgraph, kernel, vendor,
               build_status, build_error, kernels_, next_kernel, compile,
               create_state, extVars>>

\* Entry and the count checks (kernel.cc 312-324).
ExecuteBegin(k, contexts) ==
    /\ exec.pc \in {"idle", "done"}
    /\ \E ctx \in contexts :
          exec' = IF ~CheckCounts(k, ctx)
                  THEN [IdleExec EXCEPT !.pc = "done", !.kernel = k, !.ctx = ctx,
                                        !.status = "ERROR"]
                  ELSE [IdleExec EXCEPT !.pc = Position(k, "bind_in", 1).pc,
                                        !.i = Position(k, "bind_in", 1).i,
                                        !.kernel = k, !.ctx = ctx]
    /\ UNCHANGED ExecFrame

\* One iteration of the input loop (kernel.cc 330-333); an exception of
\* GetInput is caught by the handlers of Execute.
ExecuteBindInput ==
    /\ exec.pc = "bind_in"
    /\ exec' = IF exec.ctx.input_throws = exec.i
               THEN [exec EXCEPT !.pc = "done", !.status = "ERROR"]
               ELSE [exec EXCEPT
                       !.variant_pack = BindInput(@, exec.kernel, exec.i),
                       !.pc = Position(exec.kernel, "bind_in", exec.i + 1).pc,
                       !.i = Position(exec.kernel, "bind_in", exec.i + 1).i]
    /\ UNCHANGED ExecFrame

\* The output loop recording the shape it materializes in the Kernel.
ExecuteBindOutputRecordsShape ==
    /\ exec.pc = "bind_out"
    /\ exec' = IF exec.ctx.output_throws = exec.i
               THEN [exec EXCEPT !.pc = "done", !.status = "ERROR"]
               ELSE [exec EXCEPT
                       !.materialized = Append(@,
                           [index |-> exec.i,
                            shape |-> exec.kernel.output_shapes_[exec.i]]),
                       !.kernel.output_shapes_ =
                           Append(@, exec.kernel.output_shapes_[exec.i]),
                       !.variant_pack = BindOutput(@, exec.kernel, exec.i),
                       !.pc = Position(exec.kernel, "bind_out", exec.i + 1).pc,
                       !.i = Position(exec.kernel, "bind_out", exec.i + 1).i]
    /\ UNCHANGED ExecFrame

\* One iteration of the output loop (kernel.cc 336-339): the runtime
\* materializes output i with the shape recorded at compile time.
ExecuteBindOutput ==
    /\ exec.pc = "bind_out"
    /\ exec' = IF exec.ctx.output_throws = exec.i
               THEN [exec EXCEPT !.pc = "done", !.status = "ERROR"]
               ELSE [exec EXCEPT
                       !.materialized = Append(@,
                           [index |-> exec.i,
                            shape |-> exec.kernel.output_shapes_[exec.i]]),
                       !.variant_pack = BindOutput(@, exec.kernel, exec.i),
                       !.pc = Position(exec.kernel, "bind_out", exec.i + 1).pc,
                       !.i = Position(exec.kernel, "bind_out", exec.i + 1).i]
    /\ UNCHANGED ExecFrame

\* graph_->execute(handle_, variant_pack, workspace_ptr) (kernel.cc 342-346).
ExecuteRun ==
    /\ exec.pc = "run"
    /\ exec' = [exec EXCEPT
                  !.call = [made |-> TRUE, variant_pack |-> exec.variant_pack,
                            workspace_ptr |-> WorkspacePtr(exec.kernel)],
                  !.pc = "done",
                  !.status = IF exec.ctx.vendor_fails THEN "ERROR" ELSE "OK"]
    /\ UNCHANGED ExecFrame

(***************************************************************************)
(* Subgraphs handed to BuildAndCompile: well-formed ones (one Conv, Conv   *)
(* with bias, a two-node chain, each attribute form) and malformed ones.   *)
(***************************************************************************)
TInfo == VI("T", "FLOAT", <<1, 1, 6, 6>>)
W2Info == VI("W2", "FLOAT", <<1, 1, 3, 3>>)
Y2Info == VI("Y", "FLOAT", <<1, 1, 4, 4>>)

Conv(name, ins, outs, attrs) ==
    [name |-> name, op_type |-> "Conv", inputs |-> ins, outputs |-> outs,
     attrs |-> attrs, throws |-> "none"]

Pads(p) == [NoAttrs EXCEPT !.pads = IntsAttr(p)]

OneConv(attrs) ==
    [inputs |-> <<XInfo, WInfo>>,
     nodes |-> <<Conv("conv", <<XInfo, WInfo>>, <<YInfo>>, attrs)>>,
     outputs |-> <<YInfo>>, throws |-> "none"]

Chain(attrs1, attrs2) ==
    [inputs |-> <<XInfo, WInfo, W2Info>>,
     nodes |-> <<Conv("conv1", <<XInfo, WInfo>>, <<TInfo>>, attrs1),
                 Conv("conv2", <<TInfo, W2Info>>, <<Y2Info>>, attrs2)>>,
     outputs |-> <<Y2Info>>, throws |-> "none"]

G_Single == OneConv(NoAttrs)
G_Bias ==
    [inputs |-> <<XInfo, WInfo, BInfo>>,
     nodes |-> <<Conv("conv", <<XInfo, WInfo, BInfo>>, <<YInfo>>, NoAttrs)>>,
     outputs |-> <<YInfo>>, throws |-> "none"]
G_Half ==
    [inputs |-> <<VI("X", "FLOAT16", <<1, 1, 8, 8>>), VI("W", "FLOAT16", <<1, 1, 3, 3>>)>>,
     nodes |-> <<Conv("conv", <<VI("X", "FLOAT16", <<1, 1, 8, 8>>),
                                VI("W", "FLOAT16", <<1, 1, 3, 3>>)>>,
                      <<VI("Y", "FLOAT16", <<1, 1, 6, 6>>)>>, NoAttrs)>>,
     outputs |-> <<VI("Y", "FLOAT16", <<1, 1, 6, 6>>)>>, throws |-> "none"]
G_Chain == Chain(NoAttrs, NoAttrs)
G_ChainBadPads == Chain(Pads(<<1, 2>>), Pads(<<1, 2, 3>>))
G_ChainBothOut == [G_Chain EXCEPT !.outputs = <<TInfo, Y2Info>>]
G_ForwardRef == [G_Chain EXCEPT !.nodes = <<G_Chain.nodes[2], G_Chain.nodes[1]>>]
G_MissingInput == [G_Single EXCEPT !.inputs = <<XInfo>>]
G_MissingOutput == [G_Single EXCEPT !.outputs = <<VI("Z", "FLOAT", <<1, 1, 6, 6>>)>>]
G_Relu == [G_Single EXCEPT !.nodes[1].op_type = "Relu"]
G_NonTensor == [G_Single EXCEPT !.inputs[1] = NonTensorVI("X")]
G_Int32 == [G_Single EXCEPT !.inputs[1].elem = "INT32"]
G_Int32Out == [G_Single EXCEPT !.nodes[1].outputs[1].elem = "INT32"]
G_Dynamic == [G_Single EXCEPT !.inputs[1].shape = <<-1, 1, 8, 8>>]
G_Passthrough == [G_Single EXCEPT !.outputs = <<YInfo, XInfo>>]
G_DupOutput == [G_Single EXCEPT !.outputs = <<YInfo, YInfo>>]
G_TwoOutputs == [G_Single EXCEPT !.nodes[1].outputs =
                    <<YInfo, VI("Y2", "FLOAT", <<1, 1, 6, 6>>)>>]
G_OneInput == [G_Single EXCEPT !.nodes[1].inputs = <<XInfo>>]
G_Redefine == [G_Single EXCEPT !.nodes[1].outputs = <<VI("X", "FLOAT", <<1, 1, 6, 6>>)>>,
                               !.outputs = <<VI("X", "FLOAT", <<1, 1, 6, 6>>)>>]
G_OutNoShape == [G_Single EXCEPT !.outputs = <<NonTensorVI("Y")>>]

KernelSubgraphs ==
    {G_Single, G_Bias, G_Half, G_Chain, G_ChainBadPads, G_ChainBothOut, G_ForwardRef,
     G_MissingInput, G_MissingOutput, G_Relu, G_NonTensor, G_Int32, G_Int32Out,
     G_Dynamic, G_Passthrough, G_DupOutput, G_TwoOutputs, G_OneInput, G_Redefine,
     G_OutNoShape}
    \cup {OneConv(Pads(p)) : p \in {<<>>, <<1>>, <<1, 2>>, <<1, 2, 3>>, <<1, 2, 3, 4>>,
                                    <<1, 2, 3, 4, 5>>}}
    \cup {OneConv([NoAttrs EXCEPT !.strides = IntsAttr(v)]) : v \in {<<2>>, <<2, 3>>}}

\* What the vendor library does during one BuildAndCompile.
VendorBehaviours ==
    [bad : {b \in SUBSET DOMAIN Stages : Cardinality(b) <= 2},
     workspace_size : {0, 16}, oob : {0, 7}]

\* The vendor library as the facade specification sees it: every build stage
\* succeeds and a workspace is asked for.
FacadeVendor == [bad |-> {}, workspace_size |-> 16, oob |-> 0]

(***************************************************************************)
(* SpecKernel: one Kernel is built from a subgraph and then executed      *)
(***************************************************************************)
Build ==
    /\ build_status = "none"
    /\ \E v \in VendorBehaviours :
          \E r \in {BuildAndCompile(kernel, subgraph, v)} :
            /\ vendor' = v
            /\ kernel' = r.k
            /\ build_status' = r.status
            /\ build_error' = [code |-> r.code, message |-> r.message]
    /\ UNCHANGED <<graph, host, graph_support_info, cap_status, subgraph, exec,
                   kernels_, next_kernel, compile, create_state, extVars>>

ExecuteKernel ==
    /\ build_status = "OK"
    /\ ExecuteBegin(kernel, Contexts)

InitKernel ==
    /\ graph = <<>>
    /\ host = NoHost
    /\ graph_support_info = <<>>
    /\ cap_status = "none"
    /\ subgraph \in KernelSubgraphs
    /\ kernel = NewKernel(1)
    /\ vendor = FacadeVendor
    /\ build_status = "none"
    /\ build_error = NoError
    /\ exec = IdleExec
    /\ kernels_ = EmptyMap
    /\ next_kernel = 1
    /\ compile = NoCompile
    /\ create_state = NoCreateState
    /\ provider = NoProvider
    /\ allocator = NoAllocator
    /\ threads = NoThreads
    /\ transfer = NoTransfer

NextKernel ==
    \/ Build
    \/ ExecuteKernel
    \/ ExecuteBindInput
    \/ ExecuteBindOutput
    \/ ExecuteRun

SpecKernel == InitKernel /\ [][NextKernel]_vars

(***************************************************************************)
(* SpecMatch: one capability query                                         *)
(***************************************************************************)
GetCapability ==
    /\ cap_status = "none"
    /\ \E r \in {GetCapabilityImpl(graph, host)} :
        /\ cap_status' = r.status
        /\ graph_support_info' = r.claimed
    /\ UNCHANGED <<graph, host, subgraph, kernel, vendor, build_status, build_error,
                   exec, kernels_, next_kernel, compile, create_state, extVars>>

InitMatch ==
    /\ graph \in CandidateGraphs
    /\ host \in HostBehaviours
    /\ graph_support_info = <<>>
    /\ cap_status = "none"
    /\ subgraph = NoGraph
    /\ kernel = NewKernel(0)
    /\ vendor = FacadeVendor
    /\ build_status = "none"
    /\ build_error = NoError
    /\ exec = IdleExec
    /\ kernels_ = EmptyMap
    /\ next_kernel = 1
    /\ compile = NoCompile
    /\ create_state = NoCreateState
    /\ provider = NoProvider
    /\ allocator = NoAllocator
    /\ threads = NoThreads
    /\ transfer = NoTransfer

NextMatch == GetCapability

SpecMatch == InitMatch /\ [][NextMatch]_vars


(***************************************************************************)
(* Facade (ep.cc) and compute-callback adapter (node_compute_info.cc)     *)
(***************************************************************************)
MaxSubgraphs == 3   \* subgraphs the host hands over, in all its Compile requests

\* HipDNNEp::GetKernel: the Kernel registered under name, or a null pointer.
GetKernel(kernels, name) ==
    IF name \notin DOMAIN kernels THEN [null |-> TRUE, kernel |-> NewKernel(0)]
    ELSE [null |-> FALSE, kernel |-> kernels[name]]

\* std::unordered_map::emplace: no effect when the key is present.
Emplace(kernels, name, k) ==
    IF name \in DOMAIN kernels THEN kernels ELSE MapPut(kernels, name, k)

\* One iteration of the loop of CompileImpl over subgraph i of the request:
\* [ok, threw, st], st = [kernels, infos, next_kernel, built].  The item is
\* the graph, the name of its fused node and the accessor of the fused node
\* that raises; st.built lists what the BuildAndCompile calls returned.
\* (r \in {e} names the value of e.)
CompileOneNoRegister(st, item, i) ==
    IF item.graph.throws = "GetNodes" THEN [ok |-> FALSE, threw |-> TRUE, st |-> st]
    ELSE IF item.graph.nodes = <<>> THEN [ok |-> FALSE, threw |-> FALSE, st |-> st]
    ELSE CHOOSE out \in
           {LET st1 == [st EXCEPT !.next_kernel = @ + 1,
                                  !.built = Append(@, r.status)] IN
            IF r.status # "OK"
            THEN [ok |-> FALSE, threw |-> r.status = "THROW", st |-> st1]
            ELSE IF item.throws = "GetName"
            THEN [ok |-> FALSE, threw |-> TRUE, st |-> st1]
            ELSE [ok |-> TRUE, threw |-> FALSE,
                  st |-> [st1 EXCEPT !.infos[i] = "NodeComputeInfo"]]
              : r \in {BuildAndCompile(NewKernel(st.next_kernel), item.graph,
                                       FacadeVendor)}} : TRUE

\* The iteration registering the Kernel before it looks at the build status.
CompileOneRegistersFirst(st, item, i) ==
    IF item.graph.throws = "GetNodes" THEN [ok |-> FALSE, threw |-> TRUE, st |-> st]
    ELSE IF item.graph.nodes = <<>> THEN [ok |-> FALSE, threw |-> FALSE, st |-> st]
    ELSE CHOOSE out \in
           {LET st1 == [st EXCEPT !.next_kernel = @ + 1,
                                  !.built = Append(@, r.status),
                                  !.kernels = Emplace(@, item.name, r.k)] IN
            IF r.status # "OK"
            THEN [ok |-> FALSE, threw |-> r.status = "THROW", st |-> st1]
            ELSE IF item.throws = "GetName"
            THEN [ok |-> FALSE, threw |-> TRUE, st |-> st1]
            ELSE [ok |-> TRUE, threw |-> FALSE,
                  st |-> [st1 EXCEPT !.infos[i] = "NodeComputeInfo"]]
              : r \in {BuildAndCompile(NewKernel(st.next_kernel), item.graph,
                                       FacadeVendor)}} : TRUE

CompileOne(st, item, i) ==
    IF item.graph.throws = "GetNodes" THEN [ok |-> FALSE, threw |-> TRUE, st |-> st]
    ELSE IF item.graph.nodes = <<>> THEN [ok |-> FALSE, threw |-> FALSE, st |-> st]
    ELSE CHOOSE out \in
           {LET st1 == [st EXCEPT !.next_kernel = @ + 1,
                                  !.built = Append(@, r.status)] IN
            IF r.status # "OK"
            THEN [ok |-> FALSE, threw |-> r.status = "THROW", st |-> st1]
            ELSE IF item.throws = "GetName"
            THEN [ok |-> FALSE, threw |-> TRUE, st |-> st1]
            ELSE [ok |-> TRUE, threw |-> FALSE,
                  st |-> [st1 EXCEPT !.kernels = Emplace(@, item.name, r.k),
                                     !.infos[i] = "NodeComputeInfo"]]
              : r \in {BuildAndCompile(NewKernel(st.next_kernel), item.graph,
                                       FacadeVendor)}} : TRUE

\* The loop of CompileImpl: [status, st], status "THROW" when an exception
\* leaves the loop.  The caller's node_compute_infos array has one slot per
\* subgraph, "unset" until the loop writes it.
RECURSIVE CompileLoop(_, _, _)
CompileLoop(st, request, i) ==
    IF i > Len(request) THEN [status |-> "OK", st |-> st]
    ELSE CHOOSE out \in
           {IF ~r.ok THEN [status |-> IF r.threw THEN "THROW" ELSE "ERROR", st |-> r.st]
            ELSE CompileLoop(r.st, request, i + 1)
              : r \in {CompileOne(st, request[i], i)}} : TRUE

\* The try block of CompileImpl.
CompileTryBlock(kernels, nk, request) ==
    CompileLoop([kernels |-> kernels,
                 infos |-> [i \in DOMAIN request |-> "unset"],
                 next_kernel |-> nk,
                 built |-> <<>>], request, 1)

\* HipDNNEp::CompileImpl: the handlers turn an exception into an error status.
CompileImpl(kernels, nk, request) ==
    CHOOSE out \in
      {[status |-> IF r.status = "THROW" THEN "ERROR" ELSE r.status, st |-> r.st]
         : r \in {CompileTryBlock(kernels, nk, request)}} : TRUE

G_NoNodes == [G_Single EXCEPT !.nodes = <<>>]
FusedNames == {"a", "b"}
\* Subgraphs with the names of their fused nodes.  The name is used only once
\* the Kernel is built (ep.cc 228), so the failing subgraphs come under one name.
FacadeSubgraphs ==
    [graph : {G_Single, G_Bias}, name : FusedNames, throws : {"none"}]
    \cup [graph : {G_MissingInput, G_NoNodes}, name : {"a"}, throws : {"none"}]
Requests == SeqsUpTo(FacadeSubgraphs, MaxSubgraphs) \ {<<>>}

\* The runtime supplies what the Kernel was compiled for; with faulty, GetInput,
\* GetOutput or the vendor call may fail.
ContextsFor(k, faulty) ==
    {c \in Contexts : /\ c.nin = Len(k.input_uids_)
                      /\ c.nout = Len(k.output_uids_)
                      /\ faulty \/ (/\ c.input_throws = 0 /\ c.output_throws = 0
                                    /\ ~c.vendor_fails)}

\* The host issues its calls one at a time.
HostIdle == exec.pc \in {"idle", "done"}

\* One Compile request out of requests, while the host has handed over at
\* most budget subgraphs.
CompileRequest(requests, budget) ==
    /\ \E request \in requests :
          /\ compile.handed + Len(request) <= budget
          /\ \E r \in {CompileImpl(kernels_, next_kernel, request)} :
               /\ kernels_' = r.st.kernels
               /\ next_kernel' = r.st.next_kernel
               /\ compile' = [handed |-> compile.handed + Len(request),
                              request |-> request, status |-> r.status,
                              node_compute_infos |-> r.st.infos,
                              built |-> r.st.built]
    /\ UNCHANGED <<graph, host, graph_support_info, cap_status, subgraph, kernel,
                   vendor, build_status, build_error, exec, create_state, extVars>>

Compile ==
    /\ HostIdle
    /\ CompileRequest(Requests, MaxSubgraphs)

\* NodeComputeInfo::CreateStateImpl for the node named node_name.
CreateState ==
    /\ HostIdle
    /\ \E node_name \in FusedNames :
          create_state' =
              IF GetKernel(kernels_, node_name).null
              THEN [node_name |-> node_name, status |-> "ERROR", compute_state |-> 0]
              ELSE [node_name |-> node_name, status |-> "OK",
                    compute_state |-> GetKernel(kernels_, node_name).kernel.kid]
    /\ UNCHANGED <<graph, host, graph_support_info, cap_status, subgraph, kernel,
                   vendor, build_status, build_error, exec, kernels_, next_kernel,
                   compile, extVars>>

\* NodeComputeInfo::ComputeImpl: Execute on the Kernel the compute state
\* points to.
ComputeCall(faulty) ==
    /\ \E name \in DOMAIN kernels_ :
          /\ kernels_[name].kid = create_state.compute_state
          /\ ExecuteBegin(kernels_[name], ContextsFor(kernels_[name], faulty))
    /\ UNCHANGED create_state

Compute ==
    /\ create_state.status = "OK"
    /\ ComputeCall(FALSE)

Init ==
    /\ graph = <<>>
    /\ host = NoHost
    /\ graph_support_info = <<>>
    /\ cap_status = "none"
    /\ subgraph = NoGraph
    /\ kernel = NewKernel(0)
    /\ vendor = FacadeVendor
    /\ build_status = "none"
    /\ build_error = NoError
    /\ exec = IdleExec
    /\ kernels_ = EmptyMap
    /\ next_kernel = 1
    /\ compile = NoCompile
    /\ create_state = NoCreateState
    /\ provider = NoProvider
    /\ allocator = NoAllocator
    /\ threads = NoThreads
    /\ transfer = NoTransfer

Next ==
    \/ Compile
    \/ CreateState
    \/ Compute
    \/ ExecuteBindInput
    \/ ExecuteBindOutput
    \/ ExecuteRun

Spec == Init /\ [][Next]_vars

(***************************************************************************)
(* SpecFaults: the facade while the host graph API and the kernel context  *)
(* raise exceptions inside Compile, BuildAndCompile and Execute            *)
(***************************************************************************)
MaxFaultSubgraphs == 2  \* subgraphs handed over while the collaborators raise

\* G_Single with one accessor raising: of the graph (GetNodes is first called
\* by CompileImpl, GetInputs / GetOutputs by BuildAndCompile) or of its node.
ThrowingGraphs ==
    {[G_Single EXCEPT !.throws = t] : t \in {"GetNodes", "GetInputs", "GetOutputs"}}
    \cup {[G_Single EXCEPT !.nodes[1].throws = t] :
             t \in {"GetInputs", "GetOperatorType", "GetOutputs", "GetShape"}}

FaultyItems ==
    [graph : ThrowingGraphs, name : {"a"}, throws : {"none"}]
    \cup [graph : {G_Single}, name : FusedNames, throws : {"none", "GetName"}]

FaultyRequests == SeqsUpTo(FaultyItems, MaxFaultSubgraphs) \ {<<>>}

CompileFaulty ==
    /\ HostIdle
    /\ CompileRequest(FaultyRequests, MaxFaultSubgraphs)

ComputeFaulty ==
    /\ create_state.status = "OK"
    /\ ComputeCall(TRUE)

NextFaults ==
    \/ CompileFaulty
    \/ CreateState
    \/ ComputeFaulty
    \/ ExecuteBindInput
    \/ ExecuteBindOutput
    \/ ExecuteRun

SpecFaults == Init /\ [][NextFaults]_vars

(***************************************************************************)
(* SpecLife: the life of a provider, from HipDNNEpFactory::CreateEp to     *)
(* ReleaseEp, with the release callbacks of the compute handles            *)
(***************************************************************************)
MaxCreateEp == 2        \* CreateEp calls the host makes
MaxLifeSubgraphs == 2   \* subgraphs the host hands over during the life

\* Calls on the vendor handle API and Kernel destructions, as entries of
\* provider.events; h is the handle, resp. the Kernel.
Event(op, h) == [op |-> op, h |-> h]

\* HipDNNEp::HipDNNEp on the create_nth CreateEp call: [threw, p].
\* hipdnnCreate hands out handle create_nth, or fails.
Construct(p, create_nth, create_ok) ==
    IF create_ok
    THEN [threw |-> FALSE,
          p |-> [p EXCEPT !.hipdnn_handle_ = create_nth,
                          !.events = Append(@, Event("hipdnnCreate", create_nth))]]
    ELSE [threw |-> TRUE,
          p |-> [p EXCEPT !.hipdnn_handle_ = 0,
                          !.events = Append(@, Event("hipdnnCreateFailed", create_nth))]]

\* HipDNNEpFactory::CreateEpImpl.  h = [num_devices, log_ok, config_ok,
\* create_ok] is what the host passes and how its logger, its session
\* options and hipdnnCreate answer.
CreateEpImpl(p, h) ==
    LET p0 == [p EXCEPT !.ep = "null", !.attempts = @ + 1, !.hipdnn_handle_ = 0]
        failed(code) == [p0 EXCEPT !.state = "failed", !.status = "ERROR", !.code = code]
        c == Construct(p0, p0.attempts, h.create_ok)
    IN  IF h.num_devices # 1 THEN failed("ORT_INVALID_ARGUMENT")
        ELSE IF ~h.log_ok \/ ~h.config_ok THEN failed("ORT_FAIL")
        ELSE IF c.threw
        THEN [c.p EXCEPT !.state = "failed", !.status = "ERROR", !.code = "ORT_EP_FAIL"]
        ELSE [c.p EXCEPT !.state = "alive", !.status = "OK", !.code = "", !.ep = "ep"]

CreateEpInputs ==
    [num_devices : 0..2, log_ok : BOOLEAN, config_ok : BOOLEAN, create_ok : BOOLEAN]

\* The destructors kernels_.clear() runs, one per Kernel of the table (the
\* order among the Kernels is the container's; here by Kernel identity).
RECURSIVE KernelDtors(_)
KernelDtors(kids) ==
    IF kids = {} THEN <<>>
    ELSE LET kid == CHOOSE x \in kids : \A y \in kids : x <= y
         IN  <<Event("~Kernel", kid)>> \o KernelDtors(kids \ {kid})

TableKids(kernels) == {kernels[n].kid : n \in DOMAIN kernels}

\* hipdnnDestroy(hipdnn_handle_) when the handle is set.
DestroyHandle(p) ==
    IF p.hipdnn_handle_ = 0 THEN p
    ELSE [p EXCEPT !.events = Append(@, Event("hipdnnDestroy", p.hipdnn_handle_)),
                   !.hipdnn_handle_ = 0]

\* The destructor with its two statements exchanged.
DestructHandleFirst(p, kernels) ==
    LET p1 == DestroyHandle(p) IN
    [p |-> [p1 EXCEPT !.events = @ \o KernelDtors(TableKids(kernels)),
                      !.state = "released", !.ep = "null"],
     kernels |-> EmptyMap]

\* HipDNNEp::~HipDNNEp: [p, kernels].
Destruct(p, kernels) ==
    LET p1 == [p EXCEPT !.events = @ \o KernelDtors(TableKids(kernels))] IN
    [p |-> [DestroyHandle(p1) EXCEPT !.state = "released", !.ep = "null"],
     kernels |-> EmptyMap]

\* HipDNNEp::ReleaseNodeComputeInfosImpl: the objects in the slots S of the
\* array are deleted; the provider is not touched.
ReleaseNodeComputeInfosImpl(infos, S) ==
    [i \in DOMAIN infos |-> IF i \in S THEN "released" ELSE infos[i]]

\* A release of the compute state that deletes the Kernel it points to.
ReleaseStateImplDeletes(kernels, compute_state) ==
    [n \in {m \in DOMAIN kernels : kernels[m].kid # compute_state} |-> kernels[n]]

\* NodeComputeInfo::ReleaseStateImpl: the Kernel table after the call (the
\* Kernel is owned by the provider, the body is empty).
ReleaseStateImpl(kernels, compute_state) == kernels

LifeItems ==
    [graph : {G_Single}, name : FusedNames, throws : {"none"}]
    \cup [graph : {G_MissingInput}, name : {"a"}, throws : {"none"}]

LifeRequests == SeqsUpTo(LifeItems, MaxLifeSubgraphs) \ {<<>>}

LiveHandles == {i \in DOMAIN compile.node_compute_infos :
                    compile.node_compute_infos[i] = "NodeComputeInfo"}

CreateEp ==
    /\ provider.state \in {"none", "failed", "released"}
    /\ provider.attempts < MaxCreateEp
    /\ \E h \in CreateEpInputs : provider' = CreateEpImpl(provider, h)
    /\ UNCHANGED <<graph, host, graph_support_info, cap_status, subgraph, kernel,
                   vendor, build_status, build_error, exec, kernels_, next_kernel,
                   compile, create_state, allocator, threads, transfer>>

\* The host releases a provider after the compute handles and compute states
\* it obtained from it.
ReleaseEp ==
    /\ provider.state = "alive"
    /\ HostIdle
    /\ LiveHandles = {}
    /\ create_state.status # "OK"
    /\ \E r \in {Destruct(provider, kernels_)} :
          /\ provider' = r.p
          /\ kernels_' = r.kernels
    /\ UNCHANGED <<graph, host, graph_support_info, cap_status, subgraph, kernel,
                   vendor, build_status, build_error, exec, next_kernel, compile,
                   create_state, allocator, threads, transfer>>

LifeCompile ==
    /\ provider.state = "alive"
    /\ HostIdle
    /\ CompileRequest(LifeRequests, MaxLifeSubgraphs)

\* CreateState is reached through a compute handle that was not released.
LifeCreateState ==
    /\ provider.state = "alive"
    /\ LiveHandles # {}
    /\ CreateState

LifeCompute ==
    /\ provider.state = "alive"
    /\ create_state.status = "OK"
    /\ ComputeCall(FALSE)

ReleaseNodeComputeInfos ==
    /\ provider.state = "alive"
    /\ HostIdle
    /\ \E S \in SUBSET LiveHandles :
          /\ S # {}
          /\ compile' = [compile EXCEPT !.node_compute_infos =
                                            ReleaseNodeComputeInfosImpl(@, S)]
    /\ UNCHANGED <<graph, host, graph_support_info, cap_status, subgraph, kernel,
                   vendor, build_status, build_error, exec, kernels_, next_kernel,
                   create_state, extVars>>

ReleaseState ==
    /\ provider.state = "alive"
    /\ HostIdle
    /\ create_state.status = "OK"
    /\ kernels_' = ReleaseStateImpl(kernels_, create_state.compute_state)
    /\ create_state' = [create_state EXCEPT !.status = "released"]
    /\ UNCHANGED <<graph, host, graph_support_info, cap_status, subgraph, kernel,
                   vendor, build_status, build_error, exec, next_kernel, compile,
                   extVars>>

NextLife ==
    \/ CreateEp
    \/ LifeCompile
    \/ LifeCreateState
    \/ LifeCompute
    \/ ExecuteBindInput
    \/ ExecuteBindOutput
    \/ ExecuteRun
    \/ ReleaseNodeComputeInfos
    \/ ReleaseState
    \/ ReleaseEp

SpecLife == Init /\ [][NextLife]_vars

(***************************************************************************)
(* SpecAlloc: the device allocator (ep_allocator.cc) over a device whose   *)
(* hipSetDevice, hipMalloc and hipFree calls may fail                      *)
(***************************************************************************)
MaxAllocCalls == 3      \* Alloc calls the host makes

\* The components the allocator, the provider life and the threads leave alone.
coreVars == <<graph, host, graph_support_info, cap_status, subgraph, kernel, vendor,
              build_status, build_error, exec, kernels_, next_kernel, compile,
              create_state>>

\* Device addresses; 0 is the null pointer.
DevicePtrs == 1..MaxAllocCalls
AllocSizes == {0, 4, 8}

\* What hipMalloc(&ptr, size) can answer on a device with the addresses live
\* in use: an error, or success with an address not in use; for size 0,
\* success with ptr left null.
MallocAnswers(live, size) ==
    {[ok |-> FALSE, ptr |-> 0]}
    \cup IF size = 0 THEN {[ok |-> TRUE, ptr |-> 0]}
         ELSE {[ok |-> TRUE, ptr |-> q] : q \in DevicePtrs \ live}

Max(a, b) == IF a >= b THEN a ELSE b

\* HipDeviceAllocator::AllocImpl.  a.calls counts the Alloc calls, a.returned
\* those that returned a non-null pointer, a.last is the pointer returned.
AllocImpl(a, size, set_device_ok, m) ==
    LET a0 == [a EXCEPT !.calls = @ + 1, !.last = 0] IN
    IF ~set_device_ok THEN a0
    ELSE IF ~m.ok THEN a0
    ELSE [a0 EXCEPT
            !.device = IF m.ptr = 0 THEN @ ELSE @ \cup {m.ptr},
            !.allocation_sizes_ = MapPut(@, m.ptr, size),
            !.stats_ = [num_allocs |-> @.num_allocs + 1,
                        bytes_in_use |-> @.bytes_in_use + size,
                        total_allocated_bytes |-> @.total_allocated_bytes + size,
                        max_bytes_in_use |-> Max(@.max_bytes_in_use,
                                                 @.bytes_in_use + size),
                        max_alloc_size |-> Max(@.max_alloc_size, size)],
            !.returned = IF m.ptr = 0 THEN @ ELSE @ + 1,
            !.last = m.ptr]

\* FreeImpl that subtracts the size and keeps the entry in the map.
FreeImplKeepsEntry(a, p, set_device_ok, free_ok) ==
    IF p = 0 THEN a
    ELSE IF ~set_device_ok THEN a
    ELSE LET a1 == [a EXCEPT !.device = IF free_ok THEN @ \ {p} ELSE @] IN
         IF p \notin DOMAIN a1.allocation_sizes_ THEN a1
         ELSE [a1 EXCEPT !.stats_.bytes_in_use = @ - a1.allocation_sizes_[p]]

\* HipDeviceAllocator::FreeImpl; the result of hipFree is ignored.
FreeImpl(a, p, set_device_ok, free_ok) ==
    IF p = 0 THEN a
    ELSE IF ~set_device_ok THEN a
    ELSE LET a1 == [a EXCEPT !.device = IF free_ok THEN @ \ {p} ELSE @] IN
         IF p \notin DOMAIN a1.allocation_sizes_ THEN a1
         ELSE [a1 EXCEPT
                 !.stats_.bytes_in_use = @ - a1.allocation_sizes_[p],
                 !.allocation_sizes_ =
                     [q \in DOMAIN @ \ {p} |-> a1.allocation_sizes_[q]]]

Alloc ==
    /\ allocator.calls < MaxAllocCalls
    /\ \E size \in AllocSizes, set_device_ok \in BOOLEAN :
          \E m \in MallocAnswers(allocator.device, size) :
             allocator' = AllocImpl(allocator, size, set_device_ok, m)
    /\ UNCHANGED <<coreVars, provider, threads, transfer>>

\* Free of any pointer: null, live, already freed or never allocated.  hipFree
\* succeeds only on an address in use.
Free ==
    /\ \E p \in {0} \cup DevicePtrs, set_device_ok \in BOOLEAN, free_ok \in BOOLEAN :
          /\ free_ok => p \in allocator.device
          /\ allocator' = FreeImpl(allocator, p, set_device_ok, free_ok)
    /\ UNCHANGED <<coreVars, provider, threads, transfer>>

NextAlloc ==
    \/ Alloc
    \/ Free

SpecAlloc == Init /\ [][NextAlloc]_vars

(***************************************************************************)
(* SpecThreads: host threads inside one provider at the same time.  The    *)
(* table accesses (kernels_.emplace in CompileImpl, kernels_.find in       *)
(* GetKernel) and the vendor call of Execute take time: each has a step    *)
(* that enters it and a step that leaves it.  No statement of ep.cc or     *)
(* kernel.cc acquires a lock, so no step waits for another thread.         *)
(***************************************************************************)
MaxThreads == 2         \* host threads

ThreadIds == 1..MaxThreads

NoLookup == [null |-> TRUE, kernel |-> NewKernel(0)]
IdleThread ==
    [pc |-> "idle", name |-> "", kernel |-> NewKernel(0), raced |-> FALSE,
     compute_state |-> NoLookup, workspace_ptr |-> NullPtr]

\* The provider as session setup leaves it: created, two subgraphs compiled.
LiveProvider ==
    CreateEpImpl(NoProvider, [num_devices |-> 1, log_ok |-> TRUE, config_ok |-> TRUE,
                              create_ok |-> TRUE])
SetupRequest ==
    <<[graph |-> G_Single, name |-> "a", throws |-> "none"],
      [graph |-> G_Bias, name |-> "b", throws |-> "none"]>>
SetupCompile(request) == CompileImpl(EmptyMap, 1, request)

\* What the threads compile and look up: a name of the setup and a new one.
ThreadItems == [graph : {G_Single}, name : {"a", "c"}]
ThreadNames == {"a", "c"}

\* Thread t enters the table (as a writer or not): the accesses of the other
\* threads that conflict with it become data races.
MarkRaced(ths, t, writer) ==
    [u \in DOMAIN ths |->
        IF u # t /\ (ths[u].pc = "emplace" \/ (writer /\ ths[u].pc = "find"))
        THEN [ths[u] EXCEPT !.raced = TRUE] ELSE ths[u]]

ConflictsWith(ths, t, writer) ==
    \E u \in DOMAIN ths :
        u # t /\ (ths[u].pc = "emplace" \/ (writer /\ ths[u].pc = "find"))

\* What a racing find can return: anything.
LookupOutcomes(kernels) ==
    {NoLookup, [null |-> FALSE, kernel |-> NewKernel(0)]}
    \cup {[null |-> FALSE, kernel |-> kernels[n]] : n \in DOMAIN kernels}

\* CompileImpl for one subgraph up to the call of kernels_.emplace (ep.cc
\* 214-228): the Kernel is built, the thread is inside emplace.
ThreadCompileBegin ==
    /\ \E t \in ThreadIds, item \in ThreadItems :
          /\ threads[t].pc = "idle"
          /\ compile.handed < MaxSubgraphs
          /\ \E r \in {BuildAndCompile(NewKernel(next_kernel), item.graph,
                                        FacadeVendor)} :
                /\ r.status = "OK"
                /\ threads' = [MarkRaced(threads, t, TRUE) EXCEPT
                                  ![t] = [threads[t] EXCEPT
                                            !.pc = "emplace", !.name = item.name,
                                            !.kernel = r.k,
                                            !.raced = ConflictsWith(threads, t, TRUE)]]
          /\ next_kernel' = next_kernel + 1
          /\ compile' = [compile EXCEPT !.handed = @ + 1]
    /\ UNCHANGED <<graph, host, graph_support_info, cap_status, subgraph, kernel,
                   vendor, build_status, build_error, exec, kernels_, create_state,
                   provider, allocator, transfer>>

\* kernels_.emplace returns (ep.cc 228).  After a data race the table is
\* whatever the race left: here, the insert done or lost.
ThreadCompileEnd ==
    /\ \E t \in ThreadIds :
          /\ threads[t].pc = "emplace"
          /\ kernels_' \in
                {Emplace(kernels_, threads[t].name, threads[t].kernel)}
                \cup IF threads[t].raced THEN {kernels_} ELSE {}
          /\ threads' = [threads EXCEPT ![t] = IdleThread]
    /\ UNCHANGED <<graph, host, graph_support_info, cap_status, subgraph, kernel,
                   vendor, build_status, build_error, exec, next_kernel, compile,
                   create_state, provider, allocator, transfer>>

\* CreateStateImpl calls GetKernel: the thread is inside kernels_.find
\* (ep.cc 131).
ThreadLookupBegin ==
    /\ \E t \in ThreadIds, name \in ThreadNames :
          /\ threads[t].pc = "idle"
          /\ threads' = [MarkRaced(threads, t, FALSE) EXCEPT
                            ![t] = [threads[t] EXCEPT
                                      !.pc = "find", !.name = name,
                                      !.raced = ConflictsWith(threads, t, FALSE)]]
    /\ UNCHANGED <<coreVars, provider, allocator, transfer>>

\* GetKernel returns (ep.cc 132-135): CreateStateImpl fails on a null
\* pointer and otherwise hands the Kernel out as the compute state
\* (node_compute_info.cc 27-33).
ThreadLookupEnd ==
    /\ \E t \in ThreadIds :
          /\ threads[t].pc = "find"
          /\ \E found \in IF threads[t].raced THEN LookupOutcomes(kernels_)
                           ELSE {GetKernel(kernels_, threads[t].name)} :
                threads' = [threads EXCEPT ![t] =
                              IF found.null THEN IdleThread
                              ELSE [IdleThread EXCEPT !.pc = "ready",
                                                      !.compute_state = found]]
    /\ UNCHANGED <<coreVars, provider, allocator, transfer>>

\* The compute state a racing find made up can be used for nothing; with a
\* Kernel: ComputeImpl -> Execute on the Kernel of the compute state, up to
\* the vendor call: the thread is inside graph_->execute with the Kernel's
\* workspace pointer (kernel.cc 342-343).
ThreadExecuteBegin ==
    /\ \E t \in ThreadIds :
          /\ threads[t].pc = "ready"
          /\ threads[t].compute_state.kernel.kid > 0
          /\ threads' = [threads EXCEPT ![t] =
                            [@ EXCEPT !.pc = "vendor_call",
                                      !.kernel = threads[t].compute_state.kernel,
                                      !.workspace_ptr =
                                          WorkspacePtr(threads[t].compute_state.kernel)]]
    /\ UNCHANGED <<coreVars, provider, allocator, transfer>>

\* The vendor call returns (kernel.cc 344-347).
ThreadExecuteEnd ==
    /\ \E t \in ThreadIds :
          /\ threads[t].pc = "vendor_call"
          /\ threads' = [threads EXCEPT ![t] = IdleThread]
    /\ UNCHANGED <<coreVars, provider, allocator, transfer>>

InitThreads ==
    /\ graph = <<>>
    /\ host = NoHost
    /\ graph_support_info = <<>>
    /\ cap_status = "none"
    /\ subgraph = NoGraph
    /\ kernel = NewKernel(0)
    /\ vendor = FacadeVendor
    /\ build_status = "none"
    /\ build_error = NoError
    /\ exec = IdleExec
    /\ \E r \in {SetupCompile(SetupRequest)} :
          /\ kernels_ = r.st.kernels
          /\ next_kernel = r.st.next_kernel
          /\ compile = [handed |-> Len(SetupRequest), request |-> SetupRequest,
                        status |-> r.status, node_compute_infos |-> r.st.infos,
                        built |-> r.st.built]
    /\ create_state = NoCreateState
    /\ provider = LiveProvider
    /\ allocator = NoAllocator
    /\ threads = [t \in ThreadIds |-> IdleThread]
    /\ transfer = NoTransfer

NextThreads ==
    \/ ThreadCompileBegin
    \/ ThreadCompileEnd
    \/ ThreadLookupBegin
    \/ ThreadLookupEnd
    \/ ThreadExecuteBegin
    \/ ThreadExecuteEnd

SpecThreads == InitThreads /\ [][NextThreads]_vars

(***************************************************************************)
(* SpecCopy: the data-transfer component (ep_data_transfer.cc) is asked    *)
(* whether it can copy between two memory devices                          *)
(***************************************************************************)
MaxDeviceId == 2    \* memory devices carry the device ids 0 .. MaxDeviceId

\* An OrtMemoryDevice as CanCopyImpl reads it: device type, memory type and
\* the id of the device the memory belongs to.
MemoryDevices ==
    [device_type : {"CPU", "GPU", "NPU"},
     mem_type : {"DEFAULT", "HOST_ACCESSIBLE"},
     device_id : 0..MaxDeviceId]

\* HipDataTransfer::CanCopyImpl.
CanCopyImpl(src_memory_device, dst_memory_device) ==
    LET src_type == src_memory_device.mem_type
        dst_type == dst_memory_device.mem_type
        src_is_cpu == src_memory_device.device_type = "CPU"
        dst_is_cpu == dst_memory_device.device_type = "CPU"
    IN  IF src_is_cpu /\ ~dst_is_cpu /\ dst_type = "DEFAULT" THEN TRUE
        ELSE IF ~src_is_cpu /\ src_type = "DEFAULT" /\ dst_is_cpu THEN TRUE
        ELSE IF /\ ~src_is_cpu /\ ~dst_is_cpu
                /\ src_type = "DEFAULT" /\ dst_type = "DEFAULT" THEN TRUE
        ELSE FALSE

CanCopy ==
    /\ \E src \in MemoryDevices, dst \in MemoryDevices :
          transfer' = [asked |-> TRUE, src |-> src, dst |-> dst,
                       result |-> CanCopyImpl(src, dst)]
    /\ UNCHANGED <<coreVars, provider, allocator, threads>>

NextCopy == CanCopy

SpecCopy == Init /\ [][NextCopy]_vars

(***************************************************************************)
(* Properties of the capability query (SpecMatch)                          *)
(***************************************************************************)
Range(f) == {f[x] : x \in DOMAIN f}

Claimed(i) == \E k \in DOMAIN graph_support_info : graph_support_info[k] = <<i>>

IsStatic4D(value_info) ==
    /\ value_info.onnx_type = "TENSOR"
    /\ Len(value_info.shape) = 4
    /\ \A d \in DOMAIN value_info.shape : value_info.shape[d] >= 0

\* The acceptance rule as section 4.1 words it: every participating tensor
\* (primary operand, weight, the optional bias, the output) has one element
\* type out of float32 / float16; one dilation per spatial axis, each 1.
C4Accepts(node) ==
    /\ node.op_type = "Conv"
    /\ Len(node.inputs) >= 2
    /\ Len(node.outputs) = 1
    /\ \A i \in DOMAIN node.inputs :
          i <= 3 => GetTensorElementType(node.inputs[i]) =
                    GetTensorElementType(node.outputs[1])
    /\ GetTensorElementType(node.outputs[1]) \in {"FLOAT", "FLOAT16"}
    /\ node.inputs[1].onnx_type = "TENSOR" /\ Len(node.inputs[1].shape) = 4
    /\ node.inputs[2].onnx_type = "TENSOR" /\ Len(node.inputs[2].shape) = 4
    /\ GetStringAttrOrDefault(node, "auto_pad", "NOTSET") = "NOTSET"
    /\ GetIntAttrOrDefault(node, "group", 1) = 1
    /\ GetIntsAttrOrDefault(node, "dilations", <<1, 1>>) = <<1, 1>>

\* C4: a node is accepted (claimed by a successful query) if and only if it is
\* a Conv with >= 2 inputs and 1 output whose operand, weight, optional bias
\* and output share one element type of {float32, float16}, whose operand and
\* weight are 4-dimensional, with auto_pad NOTSET, group 1 and unit dilations.
C4_AcceptIffRules ==
    cap_status = "OK" =>
        \A i \in DOMAIN graph :
            graph[i].throws = "none" => (Claimed(i) <=> C4Accepts(graph[i]))

\* C5: no Conv whose operand or weight shape has an unknown dimension, a rank
\* other than 4 or no shape at all is accepted.
C5_DynamicShapeRejected ==
    cap_status = "OK" =>
        \A i \in DOMAIN graph :
            Claimed(i) => /\ IsStatic4D(graph[i].inputs[1])
                          /\ IsStatic4D(graph[i].inputs[2])

ReadThrows == {"GetInputs", "GetOutputs", "TypeInfo", "GetShape", "GetAttribute"}

HostCallsSucceed ==
    /\ ~host.get_nodes_throws
    /\ host.fuse_fail_at = 0
    /\ \A i \in DOMAIN graph : graph[i].throws # "GetOperatorType"

\* C8: when the only exceptions of a query are raised while a node's tensors or
\* attributes are read, the query returns success, the raising nodes are not
\* claimed and every other supported node is claimed.
C8_ReadExceptionFailsClosed ==
    (cap_status # "none" /\ HostCallsSucceed) =>
        /\ cap_status = "OK"
        /\ \A i \in DOMAIN graph :
              /\ graph[i].throws \in ReadThrows => ~Claimed(i)
              /\ (graph[i].throws = "none" /\ IsSupportedOp(graph[i]) = "true")
                    => Claimed(i)

C8_Witness ==
    /\ cap_status = "OK"
    /\ \E i, j \in DOMAIN graph :
          /\ graph[i].throws \in ReadThrows
          /\ ConvTryBlock(graph[i]) = "throw"
          /\ ~Claimed(i)
          /\ graph[j].throws = "none"
          /\ Claimed(j)

\* C9: every claimed group is one accepted node, the groups are in node order
\* without repetition, a successful query claims every accepted node, and a
\* query over a graph with no accepted node succeeds and claims nothing.
C9_ClaimsExactlyAccepted ==
    /\ \A k \in DOMAIN graph_support_info :
          /\ Len(graph_support_info[k]) = 1
          /\ graph_support_info[k][1] \in DOMAIN graph
          /\ IsSupportedOp(graph[graph_support_info[k][1]]) = "true"
    /\ \A k, l \in DOMAIN graph_support_info :
          k < l => graph_support_info[k][1] < graph_support_info[l][1]
    /\ cap_status = "OK" =>
          \A i \in DOMAIN graph : IsSupportedOp(graph[i]) = "true" => Claimed(i)
    /\ (/\ cap_status # "none"
        /\ ~host.get_nodes_throws
        /\ \A i \in DOMAIN graph : IsSupportedOp(graph[i]) = "false")
          => (cap_status = "OK" /\ graph_support_info = <<>>)

C9_Witness ==
    /\ cap_status = "OK"
    /\ Len(graph) = 3
    /\ graph_support_info = <<<<1>>, <<3>>>>
    /\ IsSupportedOp(graph[2]) = "false"

C9_WitnessNone ==
    /\ cap_status = "OK"
    /\ Len(graph) = 2
    /\ graph_support_info = <<>>


\* What the matcher reads of a value: its kind, element type and shape.
TypeAndShape(vis) ==
    [i \in DOMAIN vis |-> [onnx_type |-> vis[i].onnx_type, elem |-> vis[i].elem,
                           shape |-> vis[i].shape]]

\* Two nodes with the same operator type, input / output types and shapes and
\* attributes, whose reads the host answers alike.
SameFeatures(a, b) ==
    /\ a.op_type = b.op_type
    /\ TypeAndShape(a.inputs) = TypeAndShape(b.inputs)
    /\ TypeAndShape(a.outputs) = TypeAndShape(b.outputs)
    /\ a.attrs = b.attrs
    /\ a.throws = b.throws

C17_SameVerdict ==
    cap_status = "OK" =>
        \A i, j \in DOMAIN graph :
            SameFeatures(graph[i], graph[j]) => (Claimed(i) <=> Claimed(j))

C17_QueryStep ==
    (cap_status' # cap_status) =>
        /\ graph' = graph
        /\ host' = host
        /\ kernels_' = kernels_
        /\ next_kernel' = next_kernel
        /\ provider' = provider
        /\ allocator' = allocator

DeclaredValues(g) ==
    {<<0, i>> : i \in DOMAIN g.inputs}
    \cup UNION {{<<n, j>> : j \in DOMAIN g.nodes[n].outputs} : n \in DOMAIN g.nodes}

ValueName(g, v) ==
    IF v[1] = 0 THEN g.inputs[v[2]].name ELSE g.nodes[v[1]].outputs[v[2]].name

\* Every value has its own name (single assignment).
DistinctValues(g) ==
    \A v1, v2 \in DeclaredValues(g) : v1 # v2 => ValueName(g, v1) # ValueName(g, v2)

AssignedUids(k) == {k.symbol_table_[n].uid : n \in DOMAIN k.symbol_table_}

\* C2: after a successful BuildAndCompile of a subgraph with N distinct tensor
\* values, exactly N UIDs were taken from the counter, one per value, pairwise
\* distinct and all >= 1.
C2_UidsUnique ==
    (build_status = "OK" /\ DistinctValues(subgraph)) =>
        LET N == Cardinality(DeclaredValues(subgraph)) IN
        /\ kernel.next_uid_ = N + 1
        /\ Cardinality(DOMAIN kernel.symbol_table_) = N
        /\ Cardinality(AssignedUids(kernel)) = N
        /\ \A u \in AssignedUids(kernel) : u >= 1 /\ u < kernel.next_uid_

C2_Witness ==
    /\ build_status = "OK"
    /\ subgraph = G_Chain
    /\ AssignedUids(kernel) = 1..5

NoDuplicates(seq) == \A a, b \in DOMAIN seq : a # b => seq[a] # seq[b]

C3_Lists ==
    build_status = "OK" =>
        /\ Len(kernel.input_uids_) = Len(subgraph.inputs)
        /\ Len(kernel.output_uids_) = Len(subgraph.outputs)
        /\ Len(kernel.output_shapes_) = Len(subgraph.outputs)
        /\ DistinctValues(subgraph) =>
              \A i \in DOMAIN subgraph.inputs :
                 kernel.input_uids_[i] =
                     kernel.symbol_table_[subgraph.inputs[i].name].uid
        /\ \A j \in DOMAIN subgraph.outputs :
              /\ kernel.output_uids_[j] =
                     kernel.symbol_table_[subgraph.outputs[j].name].uid
              /\ kernel.output_shapes_[j] = subgraph.outputs[j].shape

C3_Call ==
    (exec.call.made /\ NoDuplicates(exec.kernel.input_uids_ \o exec.kernel.output_uids_)) =>
        /\ \A i \in DOMAIN exec.kernel.input_uids_ :
              exec.call.variant_pack[exec.kernel.input_uids_[i]] = InputBuffer(i)
        /\ \A j \in DOMAIN exec.kernel.output_uids_ :
              exec.call.variant_pack[exec.kernel.output_uids_[j]] = OutputBuffer(j)

C3_BindStep ==
    /\ (exec.pc = "bind_in" /\ exec' # exec /\ exec'.status # "ERROR") =>
          /\ exec'.variant_pack[exec.kernel.input_uids_[exec.i]] = InputBuffer(exec.i)
          /\ \A u \in DOMAIN exec.variant_pack :
                u # exec.kernel.input_uids_[exec.i]
                    => exec'.variant_pack[u] = exec.variant_pack[u]
    /\ (exec.pc = "bind_out" /\ exec' # exec /\ exec'.status # "ERROR") =>
          /\ exec'.variant_pack[exec.kernel.output_uids_[exec.i]] = OutputBuffer(exec.i)
          /\ exec'.materialized =
                Append(exec.materialized,
                       [index |-> exec.i, shape |-> subgraph.outputs[exec.i].shape])
          /\ \A u \in DOMAIN exec.variant_pack :
                u # exec.kernel.output_uids_[exec.i]
                    => exec'.variant_pack[u] = exec.variant_pack[u]

\* C3: the UID lists follow the declared input / output order (output_shapes_
\* holding the declared output shapes), each step of Execute binds supplied
\* input i to input_uids_[i] and materialized output j to output_uids_[j], and
\* a pack built from duplicate-free lists reaches the vendor call that way.
C3_OrderContract ==
    /\ [](C3_Lists /\ C3_Call)
    /\ [][C3_BindStep]_vars

C3_Witness ==
    /\ build_status = "OK"
    /\ subgraph = G_ChainBothOut
    /\ exec.call.made
    /\ exec.status = "OK"
    /\ exec.call.variant_pack[1] = InputBuffer(1)
    /\ exec.call.variant_pack[3] = InputBuffer(3)
    /\ exec.call.variant_pack[4] = OutputBuffer(1)
    /\ exec.call.variant_pack[5] = OutputBuffer(2)

\* C6: a call whose supplied input or output count differs from the compiled
\* list length ends with an error, having bound no buffer, materialized no
\* output and made no vendor execute call.
C6_CountMismatchNoEffect ==
    (/\ exec.pc # "idle"
     /\ \/ exec.ctx.nin # Len(exec.kernel.input_uids_)
        \/ exec.ctx.nout # Len(exec.kernel.output_uids_)) =>
        /\ exec.pc = "done"
        /\ exec.status = "ERROR"
        /\ exec.variant_pack = EmptyMap
        /\ exec.materialized = <<>>
        /\ ~exec.call.made

C6_Witness ==
    /\ exec.pc = "done"
    /\ exec.status = "ERROR"
    /\ exec.ctx.nin = Len(exec.kernel.input_uids_)
    /\ exec.ctx.nout > Len(exec.kernel.output_uids_)
    /\ exec.variant_pack = EmptyMap

PadsAttr(node) == GetIntsAttrOrDefault(node, "pads", <<0, 0, 0, 0>>)

AvailableAt(g, n) ==
    {g.inputs[i].name : i \in DOMAIN g.inputs}
    \cup UNION {{g.nodes[m].outputs[j].name : j \in DOMAIN g.nodes[m].outputs} :
                  m \in 1..(n - 1)}

UnresolvedInput(g) ==
    \E n \in DOMAIN g.nodes : \E i \in DOMAIN g.nodes[n].inputs :
        g.nodes[n].inputs[i].name \notin AvailableAt(g, n)

UnresolvedOutput(g) ==
    \E j \in DOMAIN g.outputs : g.outputs[j].name \notin AvailableAt(g, Len(g.nodes) + 1)

\* C19: BuildAndCompile of a subgraph in which some node reads a name that
\* neither a graph input nor an earlier node provides, or which declares an
\* output no input or node provides, returns an ORT_EP_FAIL status raised by
\* the translation (not by a build stage), and no build stage has been invoked.
C19_UnresolvedNameFails ==
    (build_status # "none" /\ (UnresolvedInput(subgraph) \/ UnresolvedOutput(subgraph))) =>
        /\ build_status = "ERROR"
        /\ build_error.code = "ORT_EP_FAIL"
        /\ \A i \in DOMAIN StageMessages : build_error.message # StageMessages[i]
        /\ kernel.graph_.stages = <<>>
        /\ kernel.workspace_ = 0

C19_Witness ==
    /\ build_status = "ERROR"
    /\ subgraph = G_ForwardRef
    /\ UnresolvedInput(subgraph)
    /\ build_error.message = "Input not found in symbol table"
    /\ kernel.graph_.ops = <<>>
    /\ kernel.graph_.stages = <<>>

\* The first stage the vendor library fails, 0 when it fails none.
FirstBad(v) ==
    IF v.bad = {} THEN 0 ELSE CHOOSE i \in v.bad : \A j \in v.bad : i <= j

\* C20: the build stages invoked on the vendor graph are a prefix of validate,
\* build_operation_graph, create_execution_plans, check_support, build_plans,
\* get_workspace_size; a stage is invoked only if every earlier one succeeded;
\* once stages run, the call ends at the first failing one with the error of
\* that stage and no workspace, and succeeds only after all six.
C20_StagesInOrder ==
    build_status # "none" =>
        LET s == kernel.graph_.stages IN
        /\ Len(s) <= Len(Stages)
        /\ \A i \in DOMAIN s : s[i] = Stages[i]
        /\ \A i \in DOMAIN s : \A j \in 1..(i - 1) : j \notin vendor.bad
        /\ (s # <<>> /\ vendor.bad # {}) =>
              /\ Len(s) = FirstBad(vendor)
              /\ build_status = "ERROR"
              /\ build_error = [code |-> "ORT_EP_FAIL",
                                message |-> StageMessages[FirstBad(vendor)]]
              /\ kernel.workspace_ = 0
        /\ (s # <<>> /\ vendor.bad = {}) => (s = Stages /\ build_status = "OK")
        /\ build_status = "OK" => (s = Stages /\ vendor.bad = {})

C20_Witness ==
    /\ build_status = "ERROR"
    /\ vendor.bad = {3, 5}
    /\ vendor.workspace_size = 16
    /\ kernel.graph_.stages = <<"validate", "build_operation_graph",
                                "create_execution_plans">>
    /\ build_error.message = "hipDNN create_execution_plans failed"
    /\ kernel.workspace_ = 0

\* C21: after a successful compilation the workspace buffer has the size the
\* vendor library reported (empty for 0); an Execute call runs on a Kernel
\* with that same buffer size, and the workspace pointer it passes to the
\* vendor call is null exactly when the size is 0.
C21_WorkspaceSized ==
    build_status = "OK" =>
        /\ kernel.workspace_ = vendor.workspace_size
        /\ exec.pc # "idle" => exec.kernel.workspace_ = vendor.workspace_size
        /\ exec.call.made =>
              /\ (exec.call.workspace_ptr = NullPtr) <=> (vendor.workspace_size = 0)
              /\ vendor.workspace_size > 0 =>
                    exec.call.workspace_ptr = WorkspaceBuffer(kernel)

C21_Witness ==
    /\ build_status = "OK"
    /\ vendor.workspace_size = 0
    /\ kernel.workspace_ = 0
    /\ exec.call.made
    /\ exec.call.workspace_ptr = NullPtr

\* The state of a Kernel that BuildAndCompile establishes.
Compiled(k) ==
    <<k.input_uids_, k.output_uids_, k.output_shapes_, k.symbol_table_,
      k.next_uid_, k.workspace_, k.graph_>>

\* C22: every step of an Execute call on a successfully built Kernel, whether
\* the call goes on, succeeds or fails, leaves the Kernel's input-UID list,
\* output-UID list, output-shape list, symbol table, UID counter, workspace
\* size and vendor graph as BuildAndCompile left them; the step writes only
\* the call's local structures.
C22_ExecuteStep ==
    (build_status = "OK" /\ exec' # exec) =>
        /\ Compiled(kernel') = Compiled(kernel)
        /\ Compiled(exec'.kernel) = Compiled(kernel)
        /\ build_status' = "OK"

C22_ExecuteKeepsKernel == [][C22_ExecuteStep]_vars

\* An Execute call has bound every buffer and failed in the vendor library.
C22_Witness ==
    /\ build_status = "OK"
    /\ subgraph = G_Chain
    /\ exec.pc = "done"
    /\ exec.status = "ERROR"
    /\ exec.call.made
    /\ Compiled(exec.kernel) = Compiled(kernel)
    /\ kernel.next_uid_ = 6

\* The names a subgraph declares as its inputs and as its outputs.
BoundaryNames(g) ==
    {g.inputs[i].name : i \in DOMAIN g.inputs}
    \cup {g.outputs[i].name : i \in DOMAIN g.outputs}

\* C23: after a successful BuildAndCompile of a subgraph in single-assignment
\* form, a symbol-table entry is non-virtual if and only if its tensor is a
\* declared subgraph input or a declared subgraph output; a tensor that is
\* only passed from one node to a later one stays virtual.
C23_VirtualIffInternal ==
    (build_status = "OK" /\ DistinctValues(subgraph)) =>
        \A n \in DOMAIN kernel.symbol_table_ :
            (~kernel.symbol_table_[n].is_virtual) <=> (n \in BoundaryNames(subgraph))

C23_Witness ==
    /\ build_status = "OK"
    /\ subgraph = G_Chain
    /\ kernel.symbol_table_["T"].is_virtual
    /\ ~kernel.symbol_table_["X"].is_virtual
    /\ ~kernel.symbol_table_["Y"].is_virtual

\* The Capability Matcher accepts every node of the subgraph.
MatcherAccepts(g) ==
    \A n \in DOMAIN g.nodes : IsSupportedOp(g.nodes[n]) = "true"

\* C25: a subgraph whose nodes the Capability Matcher all accepts is never
\* failed by BuildAndCompile for the length of a pads attribute.
C25_AcceptedTranslates ==
    (build_status # "none" /\ MatcherAccepts(subgraph)) =>
        build_error.message # "Conv pads must have 2 or 4 elements"

\* The tensors a vendor operator reads.
OperandUids(op) == {op.x, op.w}

\* C26: after a successful build of a subgraph the matcher accepts, the
\* operator emitted for a node reads every input of the node, the third
\* (bias) input of a Conv included, and every tensor bound as a subgraph
\* input at Execute is read by some operator of the compiled graph.
C26_InputsConsumed ==
    (build_status = "OK" /\ MatcherAccepts(subgraph)
     /\ DistinctValues(subgraph)) =>
        /\ \A n \in DOMAIN subgraph.nodes : \A j \in DOMAIN subgraph.nodes[n].inputs :
              kernel.symbol_table_[subgraph.nodes[n].inputs[j].name].uid
                  \in OperandUids(kernel.graph_.ops[n])
        /\ \A i \in DOMAIN kernel.input_uids_ :
              \E n \in DOMAIN kernel.graph_.ops :
                  kernel.input_uids_[i] \in OperandUids(kernel.graph_.ops[n])

\* C29: the UID->pointer map an Execute call passes to the vendor execution
\* call has one entry per element of the input-UID list and of the
\* output-UID list; no binding is overwritten by a later one.
C29_OneBindingPerUid ==
    (build_status = "OK" /\ exec.call.made) =>
        Cardinality(DOMAIN exec.call.variant_pack)
            = Len(exec.kernel.input_uids_) + Len(exec.kernel.output_uids_)


(***************************************************************************)
(* Properties of the facade (Spec)                                         *)
(***************************************************************************)
\* The step is one Compile request returning.
CompileReturns == compile'.handed > compile.handed

\* The subgraph at which the loop of CompileImpl stopped (0 when it ran
\* through): the first slot of node_compute_infos left unwritten.
FailedSubgraph(c) ==
    IF \A i \in DOMAIN c.request : c.node_compute_infos[i] # "unset" THEN 0
    ELSE CHOOSE i \in DOMAIN c.request :
            /\ c.node_compute_infos[i] = "unset"
            /\ \A j \in 1..(i - 1) : c.node_compute_infos[j] # "unset"

\* C1: when BuildAndCompile fails for a subgraph of a Compile request, the
\* request returns its error with the name -> Kernel table equal to its value
\* before the request.
C1_FailedCompileNotCommitted ==
    [][(/\ CompileReturns
        /\ compile'.status = "ERROR"
        /\ FailedSubgraph(compile') # 0
        /\ compile'.request[FailedSubgraph(compile')].graph.nodes # <<>>)
          => kernels_' = kernels_]_vars

FreshNames(request, kernels) ==
    /\ \A i \in DOMAIN request : request[i].name \notin DOMAIN kernels
    /\ \A i, j \in DOMAIN request : i # j => request[i].name # request[j].name

\* C7: a successful Compile request over k subgraphs whose names are new
\* fills the k handle slots, slot i by iteration i, and registers under each
\* subgraph's name the Kernel built from that subgraph, leaving the other
\* entries alone; CreateState on a registered name yields that Kernel and on
\* an unregistered name an error.
C7_CompileStep ==
    (/\ CompileReturns
     /\ compile'.status = "OK"
     /\ FreshNames(compile'.request, kernels_)) =>
        LET request == compile'.request IN
        /\ DOMAIN compile'.node_compute_infos = DOMAIN request
        /\ \A i \in DOMAIN request :
              /\ compile'.node_compute_infos[i] = "NodeComputeInfo"
              /\ request[i].name \in DOMAIN kernels_'
              /\ kernels_'[request[i].name] =
                    BuildAndCompile(NewKernel(next_kernel + i - 1),
                                    request[i].graph, FacadeVendor).k
              /\ Len(kernels_'[request[i].name].input_uids_) =
                    Len(request[i].graph.inputs)
        /\ DOMAIN kernels_' =
              DOMAIN kernels_ \cup {request[i].name : i \in DOMAIN request}
        /\ \A n \in DOMAIN kernels_ : kernels_'[n] = kernels_[n]

C7_LookupStep ==
    create_state' # create_state =>
        /\ create_state'.status = "OK" <=> create_state'.node_name \in DOMAIN kernels_
        /\ create_state'.status = "OK" =>
              create_state'.compute_state = kernels_[create_state'.node_name].kid
        /\ create_state'.status \in {"OK", "ERROR"}

C7_HandlesAndLookup == [][C7_CompileStep /\ C7_LookupStep]_vars

C7_Witness ==
    /\ compile.handed = 2
    /\ compile.status = "OK"
    /\ compile.request = <<[graph |-> G_Single, name |-> "b", throws |-> "none"],
                           [graph |-> G_Bias, name |-> "a", throws |-> "none"]>>
    /\ compile.node_compute_infos = <<"NodeComputeInfo", "NodeComputeInfo">>
    /\ create_state.status = "OK"
    /\ create_state.node_name = "a"
    /\ create_state.compute_state = 2
    /\ Len(kernels_["a"].input_uids_) = 3
    /\ Len(kernels_["b"].input_uids_) = 2

\* Subgraph i of the request just handled was compiled and is the last one
\* compiled under its name.
LastCompiledAs(c, i) ==
    /\ c.node_compute_infos[i] = "NodeComputeInfo"
    /\ \A j \in DOMAIN c.request :
          (j > i /\ c.request[j].name = c.request[i].name)
              => c.node_compute_infos[j] # "NodeComputeInfo"

\* C27: after a Compile request, a lookup of the name of a subgraph the
\* request compiled returns the Kernel built for the last subgraph compiled
\* under that name, also when the table already held a Kernel of that name.
C27_CompileReplaces ==
    [][CompileReturns =>
         \A i \in DOMAIN compile'.request :
            LastCompiledAs(compile', i) =>
               /\ ~GetKernel(kernels_', compile'.request[i].name).null
               /\ GetKernel(kernels_', compile'.request[i].name).kernel.kid
                     = next_kernel + i - 1]_vars

\* The Kernel went through a whole BuildAndCompile: its vendor graph exists,
\* holds an operator and has passed every build stage.
Built(k) ==
    /\ ~k.graph_.null
    /\ k.graph_.ops # <<>>
    /\ k.graph_.stages = Stages

\* C28: every Kernel in the name->Kernel table has completed BuildAndCompile
\* successfully; a compute state handed out by CreateState is a Kernel of the
\* table, and every Execute call started through Compute runs on a Kernel
\* that was built successfully.
C28_TableHoldsBuiltKernels ==
    /\ \A n \in DOMAIN kernels_ : Built(kernels_[n])
    /\ create_state.status = "OK" =>
          \E n \in DOMAIN kernels_ :
              kernels_[n].kid = create_state.compute_state
    /\ exec.pc # "idle" => Built(exec.kernel)

\* After a request whose second subgraph failed to build, the Kernel of the
\* first one has been executed through its compute state.
C28_Witness ==
    /\ compile.status = "ERROR"
    /\ compile.built = <<"OK", "ERROR">>
    /\ create_state.status = "OK"
    /\ exec.pc = "done"
    /\ exec.call.made
    /\ exec.kernel.kid = create_state.compute_state
    /\ Built(exec.kernel)


(***************************************************************************)
(* Properties of the facade under faults (SpecFaults)                      *)
(***************************************************************************)
\* The item raises an exception somewhere in its iteration of the loop of
\* CompileImpl; RaisesInBuild: inside its BuildAndCompile call.
RaisesInBuild(item) ==
    \/ item.graph.throws \in {"GetInputs", "GetOutputs"}
    \/ /\ item.graph.throws = "none"
       /\ \E n \in DOMAIN item.graph.nodes : item.graph.nodes[n].throws # "none"

Raises(item) ==
    item.graph.throws # "none" \/ RaisesInBuild(item) \/ item.throws # "none"

\* C12: no exception leaves BuildAndCompile, Compile or Execute.  Every
\* BuildAndCompile call of a request returned OK or ERROR, and ERROR with code
\* ORT_EP_FAIL when an accessor raised inside it; a request with an item that
\* raises returns ERROR and leaves that item's slot unwritten; an Execute call
\* in which GetInput or GetOutput raised ends with ERROR before the vendor call.
C12_ExceptionsBecomeStatuses ==
    /\ compile.status \in {"none", "OK", "ERROR"}
    /\ \A i \in DOMAIN compile.built : compile.built[i] \in {"OK", "ERROR"}
    /\ \A i \in DOMAIN compile.request :
          (i <= Len(compile.built) /\ RaisesInBuild(compile.request[i])) =>
              /\ compile.built[i] = "ERROR"
              /\ BuildAndCompile(NewKernel(1), compile.request[i].graph, FacadeVendor).code
                     = "ORT_EP_FAIL"
    /\ (\E i \in DOMAIN compile.request : Raises(compile.request[i])) =>
          /\ compile.status = "ERROR"
          /\ \E i \in DOMAIN compile.request :
                /\ Raises(compile.request[i])
                /\ compile.node_compute_infos[i] = "unset"
    /\ exec.status \in {"none", "OK", "ERROR"}
    /\ (exec.pc = "done" /\ CheckCounts(exec.kernel, exec.ctx)
          /\ (exec.ctx.input_throws > 0 \/ exec.ctx.output_throws > 0)) =>
          (exec.status = "ERROR" /\ ~exec.call.made)

C12_Witness ==
    /\ exec.pc = "done"
    /\ exec.status = "ERROR"
    /\ exec.ctx.input_throws = 2
    /\ Len(compile.request) = 1
    /\ compile.request[1].graph.throws = "GetOutputs"
    /\ compile.built = <<"ERROR">>
    /\ compile.status = "ERROR"

(***************************************************************************)
(* Properties of the provider's life (SpecLife)                            *)
(***************************************************************************)
CountOf(op, h) ==
    Cardinality({i \in DOMAIN provider.events : provider.events[i] = Event(op, h)})

HandleOps == {"hipdnnCreate", "hipdnnCreateFailed", "hipdnnDestroy"}

\* Per handle: at most one hipdnnCreate, a hipdnnDestroy only after its
\* successful hipdnnCreate and at most once; the provider exists exactly
\* while its handle does; a failed creation leaves no provider, an error
\* status and no hipdnnDestroy.
C13_HandleState ==
    /\ \A i \in DOMAIN provider.events :
          provider.events[i].op \in HandleOps =>
              provider.events[i].h \in 1..provider.attempts
    /\ \A h \in 1..provider.attempts :
          /\ CountOf("hipdnnCreate", h) + CountOf("hipdnnCreateFailed", h) <= 1
          /\ CountOf("hipdnnDestroy", h) <= CountOf("hipdnnCreate", h)
          /\ \A j \in DOMAIN provider.events :
                provider.events[j] = Event("hipdnnDestroy", h) =>
                    \E i \in 1..(j - 1) : provider.events[i] = Event("hipdnnCreate", h)
          /\ CountOf("hipdnnCreateFailed", h) = 1 => CountOf("hipdnnDestroy", h) = 0
    /\ provider.state = "alive" <=> provider.hipdnn_handle_ # 0
    /\ provider.state = "alive" <=> provider.ep = "ep"
    /\ provider.state = "alive" =>
          /\ provider.hipdnn_handle_ = provider.attempts
          /\ provider.status = "OK"
          /\ CountOf("hipdnnCreate", provider.hipdnn_handle_) = 1
          /\ CountOf("hipdnnDestroy", provider.hipdnn_handle_) = 0
    /\ provider.state = "failed" =>
          /\ provider.status = "ERROR"
          /\ CountOf("hipdnnCreate", provider.attempts) = 0
    /\ CountOf("hipdnnCreateFailed", provider.attempts) = 1 =>
          /\ provider.state = "failed"
          /\ provider.code = "ORT_EP_FAIL"
    /\ provider.state = "released" =>
          /\ CountOf("hipdnnDestroy", provider.attempts) = 1
          /\ kernels_ = EmptyMap

\* The step in which the provider is destroyed: every Kernel of the table is
\* destroyed first, hipdnnDestroy of the provider's handle comes last.
C13_ReleaseStep ==
    (provider.state = "alive" /\ provider'.state = "released") =>
        LET new == SubSeq(provider'.events, Len(provider.events) + 1,
                          Len(provider'.events))
        IN  /\ new # <<>>
            /\ new[Len(new)] = Event("hipdnnDestroy", provider.hipdnn_handle_)
            /\ \A i \in 1..(Len(new) - 1) : new[i].op = "~Kernel"
            /\ \A n \in DOMAIN kernels_ :
                  \E i \in 1..(Len(new) - 1) : new[i] = Event("~Kernel", kernels_[n].kid)
            /\ kernels_' = EmptyMap

\* No other step calls the handle API.
C13_OtherSteps ==
    (provider'.events # provider.events) =>
        \/ provider'.attempts = provider.attempts + 1
        \/ provider.state = "alive" /\ provider'.state = "released"

\* C13: the accelerator handle is created once, in the constructor, and
\* destroyed once, in the destructor after the Kernels of the table; when
\* hipdnnCreate fails CreateEp returns an error, yields no provider and the
\* handle is never destroyed.
C13_HandleLifetime ==
    []C13_HandleState /\ [][C13_ReleaseStep /\ C13_OtherSteps]_vars

C13_Witness ==
    /\ provider.state = "released"
    /\ provider.events = <<Event("hipdnnCreateFailed", 1), Event("hipdnnCreate", 2),
                           Event("~Kernel", 1), Event("~Kernel", 2),
                           Event("hipdnnDestroy", 2)>>

ReleasedInfos ==
    /\ compile'.handed = compile.handed
    /\ compile'.node_compute_infos # compile.node_compute_infos

ReleasedState == create_state.status = "OK" /\ create_state'.status = "released"

C14_ReleaseStep ==
    (ReleasedInfos \/ ReleasedState) =>
        /\ kernels_' = kernels_
        /\ provider' = provider
        /\ exec' = exec
        /\ \A n \in FusedNames : GetKernel(kernels_', n) = GetKernel(kernels_, n)
        /\ ReleasedInfos =>
              /\ create_state' = create_state
              /\ \A i \in DOMAIN compile.node_compute_infos :
                    compile'.node_compute_infos[i] \in
                        {compile.node_compute_infos[i], "released"}
              /\ \A i \in DOMAIN compile.node_compute_infos :
                    compile.node_compute_infos[i] = "unset" =>
                        compile'.node_compute_infos[i] = "unset"
        /\ ReleasedState => compile' = compile

\* C14: a ReleaseNodeComputeInfos or ReleaseState call changes neither the
\* Kernel table nor the provider and its handle: every name resolves to the
\* Kernel it resolved to before, and the compute handles that were not
\* released are as they were.
C14_ReleaseKeepsKernels == [][C14_ReleaseStep]_vars

\* A registered Kernel is executing after a compute handle of its request was
\* released, reached through the handle that was not.
C14_Witness ==
    /\ Len(compile.node_compute_infos) = 2
    /\ compile.node_compute_infos[1] = "released"
    /\ compile.node_compute_infos[2] = "NodeComputeInfo"
    /\ exec.pc = "run"
    /\ "a" \in DOMAIN kernels_
    /\ exec.kernel = kernels_["a"]
    /\ provider.hipdnn_handle_ = 1

(***************************************************************************)
(* Properties of the device allocator (SpecAlloc)                          *)
(***************************************************************************)
\* bytes_in_use is the sum of the tracked sizes, never negative and never
\* above its recorded peak.
BytesWithinBounds ==
    /\ allocator.stats_.bytes_in_use >= 0
    /\ allocator.stats_.max_bytes_in_use >= allocator.stats_.bytes_in_use

\* C11: after any sequence of Alloc and Free calls bytes_in_use >= 0,
\* max_bytes_in_use >= bytes_in_use and num_allocs is the number of Alloc
\* calls that returned a non-null pointer.
C11_StatsConsistent ==
    /\ BytesWithinBounds
    /\ allocator.stats_.num_allocs = allocator.returned
\* The sum of the sizes recorded for the pointers in S.
RECURSIVE TrackedBytes(_, _)
TrackedBytes(sizes, S) ==
    IF S = {} THEN 0
    ELSE LET p == CHOOSE q \in S : TRUE IN sizes[p] + TrackedBytes(sizes, S \ {p})

\* bytes_in_use is the sum over the live-allocation map.
BytesEqualTracked ==
    allocator.stats_.bytes_in_use
        = TrackedBytes(allocator.allocation_sizes_, DOMAIN allocator.allocation_sizes_)

\* A Free of null or of a pointer that is not in the map (never allocated, or
\* freed before) changes no statistic, whatever the device runtime answers.
FreeOfUntrackedKeepsStats ==
    \A p \in {0} \cup DevicePtrs, set_device_ok \in BOOLEAN, free_ok \in BOOLEAN :
        (p = 0 \/ p \notin DOMAIN allocator.allocation_sizes_) =>
            FreeImpl(allocator, p, set_device_ok, free_ok).stats_ = allocator.stats_

\* An Alloc call in which hipSetDevice or hipMalloc reports an error returns
\* null and changes neither a statistic nor the map.
FailedAllocKeepsStats ==
    \A size \in AllocSizes, set_device_ok \in BOOLEAN :
        \A m \in MallocAnswers(allocator.device, size) :
            (~set_device_ok \/ ~m.ok) =>
                LET a == AllocImpl(allocator, size, set_device_ok, m) IN
                /\ a.last = 0
                /\ a.stats_ = allocator.stats_
                /\ a.allocation_sizes_ = allocator.allocation_sizes_

InTable(t) == threads[t].pc \in {"emplace", "find"}

\* C15: the table accesses are mutually exclusive: while a thread is inside
\* kernels_.emplace no other thread is inside kernels_.emplace or
\* kernels_.find.
C15_TableAccessExclusive ==
    \A t1, t2 \in DOMAIN threads :
        (t1 # t2 /\ threads[t1].pc = "emplace") => ~InTable(t2)

InVendorCall(t) == threads[t].pc = "vendor_call"

\* C16: of two threads inside the vendor call at the same time, those on the
\* same Kernel pass the same workspace pointer, those on different Kernels
\* never pass the same workspace buffer.
C16_WorkspaceSharing ==
    \A t1, t2 \in DOMAIN threads :
        (t1 # t2 /\ InVendorCall(t1) /\ InVendorCall(t2)) =>
            /\ threads[t1].kernel.kid = threads[t2].kernel.kid =>
                  threads[t1].workspace_ptr = threads[t2].workspace_ptr
            /\ threads[t1].kernel.kid # threads[t2].kernel.kid =>
                  \/ threads[t1].workspace_ptr # threads[t2].workspace_ptr
                  \/ threads[t1].workspace_ptr = NullPtr

\* Two threads are inside the vendor call on the same Kernel, both with that
\* Kernel's workspace buffer; and a third Kernel has its own.
C16_Witness ==
    /\ InVendorCall(1) /\ InVendorCall(2)
    /\ threads[1].kernel.kid = 1
    /\ threads[2].kernel.kid = 1
    /\ threads[1].workspace_ptr = WorkspaceBuffer(threads[1].kernel)
    /\ threads[2].workspace_ptr = threads[1].workspace_ptr
    /\ threads[1].workspace_ptr # NullPtr


(***************************************************************************)
(* Properties of the data-transfer component (SpecCopy)                    *)
(***************************************************************************)
HostMemory(d) == d.device_type = "CPU"
DefaultDeviceMemory(d) == d.device_type = "GPU" /\ d.mem_type = "DEFAULT"

\* C24: CanCopy accepts a copy from host memory to default device memory and
\* from default device memory to host memory, and it accepts a copy from
\* device memory to device memory only when both are memory of the same
\* device.
C24_CanCopyRules ==
    transfer.asked =>
        /\ (HostMemory(transfer.src) /\ DefaultDeviceMemory(transfer.dst))
              => transfer.result
        /\ (DefaultDeviceMemory(transfer.src) /\ HostMemory(transfer.dst))
              => transfer.result
        /\ (transfer.src.device_type = "GPU" /\ transfer.dst.device_type = "GPU"
             /\ transfer.result)
              => transfer.src.device_id = transfer.dst.device_id
=============================================================================
